---- MODULE Spec2Model ----
(***************************************************************************)
(* Anamneon: per-user encrypted storage.                                   *)
(*                                                                         *)
(* Text is a sequence of UTF-16 code units (a JavaScript string), a Buffer *)
(* is a sequence of bytes.  The library primitives the program calls       *)
(* (PBKDF2, AES-256-GCM) are modelled by deterministic byte functions      *)
(* built on one mixing function; the encodings the program applies around  *)
(* them (UTF-8, hex, the ':'-separated blob, the file layout) are computed *)
(* as the code computes them.                                              *)
(*                                                                         *)
(* SpecText   encryptText / decryptText on one stored blob                 *)
(* SpecFile   encryptFile as its three streams run, then decryptFile       *)
(* Spec       accounts, sessions and the diary on a fresh installation     *)
(* SpecStore  sessions, diary, uploads and metadata with two accounts      *)
(* SpecBatch  the getAll handlers over rows whose blobs may be damaged     *)
(* SpecSession  file:open, its cleanup timer and the application's exit    *)
(* SpecExport database:exportForAI over one account's rows                 *)
(* SpecRegister  auth:register split at its awaits, with interleaving      *)
(* SpecProfile  auth:updateUser with every shape of updates                *)
(* SpecMigrate  Database.initialize statement by statement, with restarts  *)
(* SpecRestore  database:backup and database:restore beside the sessions   *)
(* SpecUpload   the upload handlers split at the open dialog, with logout  *)
(***************************************************************************)
EXTENDS Integers, Sequences, FiniteSets, TLC

(* ---------------- program constants (src/src/main/encryption.ts) ------- *)
KEY_LENGTH == 32
IV_LENGTH == 16
SALT_LENGTH == 64
TAG_LENGTH == 16
ITERATIONS == 100000
HASH_SALT_BYTES == 16
HASH_LENGTH == 64

(* ---------------- bytes, code units, encodings ------------------------- *)
COLON == 58

RECURSIVE Xor(_, _)
Xor(a, b) ==
  IF a = 0 THEN b
  ELSE IF b = 0 THEN a
  ELSE (((a % 2) + (b % 2)) % 2) + (2 * Xor(a \div 2, b \div 2))

\* Buffer.toString('hex'): two lower-case digits per byte.
HexDigit(n) == IF n < 10 THEN 48 + n ELSE 87 + n
toHex(buf) ==
  [k \in 1..(2 * Len(buf)) |->
     IF k % 2 = 1 THEN HexDigit(buf[(k + 1) \div 2] \div 16)
     ELSE HexDigit((buf[k \div 2] % 16))]

\* The value of a hex digit in either case, -1 for any other code unit.
HexVal(c) ==
  IF c >= 48 /\ c <= 57 THEN c - 48
  ELSE IF c >= 97 /\ c <= 102 THEN c - 87
  ELSE IF c >= 65 /\ c <= 70 THEN c - 55
  ELSE -1

\* Buffer.from(str, 'hex'): decodes pairs of digits and stops at the first pair
\* that is not two hex digits; a trailing odd digit is dropped.
fromHex(s) ==
  LET pairs == Len(s) \div 2
      bad == {k \in 1..pairs : HexVal(s[(2 * k) - 1]) < 0 \/ HexVal(s[2 * k]) < 0}
      n == IF bad = {} THEN pairs ELSE (CHOOSE k \in bad : \A j \in bad : k <= j) - 1
  IN [k \in 1..n |-> (16 * HexVal(s[(2 * k) - 1])) + HexVal(s[2 * k])]

IsHighSurrogate(c) == c >= 55296 /\ c <= 56319
IsLowSurrogate(c) == c >= 56320 /\ c <= 57343

\* String -> UTF-8 bytes as Node encodes a JavaScript string: a surrogate pair
\* becomes one 4-byte sequence, an unpaired surrogate becomes U+FFFD (EF BF BD).
\* Mutant: the string taken as one byte per code unit ('latin1').
latin1Encode(s) == [i \in 1..Len(s) |-> s[i] % 256]

RECURSIVE utf8EncodeAt(_, _)
utf8EncodeAt(s, i) ==
  IF i > Len(s) THEN <<>>
  ELSE LET c == s[i] IN
    IF c < 128 THEN <<c>> \o utf8EncodeAt(s, i + 1)
    ELSE IF c < 2048 THEN <<192 + (c \div 64), 128 + (c % 64)>> \o utf8EncodeAt(s, i + 1)
    ELSE IF IsHighSurrogate(c) /\ i < Len(s) /\ IsLowSurrogate(s[i + 1]) THEN
      LET cp == 65536 + (c - 55296) * 1024 + (s[i + 1] - 56320) IN
        <<240 + (cp \div 262144), 128 + ((cp \div 4096) % 64),
          128 + ((cp \div 64) % 64), 128 + (cp % 64)>> \o utf8EncodeAt(s, i + 2)
    ELSE IF IsHighSurrogate(c) \/ IsLowSurrogate(c) THEN
      <<239, 191, 189>> \o utf8EncodeAt(s, i + 1)
    ELSE <<224 + (c \div 4096), 128 + ((c \div 64) % 64), 128 + (c % 64)>>
           \o utf8EncodeAt(s, i + 1)
utf8Encode(s) == utf8EncodeAt(s, 1)

IsCont(b, i) == i <= Len(b) /\ b[i] >= 128 /\ b[i] <= 191

\* UTF-8 bytes -> string: a well-formed sequence becomes its code unit(s), any
\* other byte becomes U+FFFD.
RECURSIVE utf8DecodeAt(_, _)
utf8DecodeAt(b, i) ==
  IF i > Len(b) THEN <<>>
  ELSE LET c == b[i] IN
    IF c < 128 THEN <<c>> \o utf8DecodeAt(b, i + 1)
    ELSE IF c >= 194 /\ c <= 223 /\ IsCont(b, i + 1) THEN
      <<(c - 192) * 64 + (b[i + 1] - 128)>> \o utf8DecodeAt(b, i + 2)
    ELSE IF c >= 224 /\ c <= 239 /\ IsCont(b, i + 1) /\ IsCont(b, i + 2)
            /\ (c # 224 \/ b[i + 1] >= 160) /\ (c # 237 \/ b[i + 1] <= 159) THEN
      <<(c - 224) * 4096 + (b[i + 1] - 128) * 64 + (b[i + 2] - 128)>>
        \o utf8DecodeAt(b, i + 3)
    ELSE IF c >= 240 /\ c <= 244 /\ IsCont(b, i + 1) /\ IsCont(b, i + 2) /\ IsCont(b, i + 3)
            /\ (c # 240 \/ b[i + 1] >= 144) /\ (c # 244 \/ b[i + 1] <= 143) THEN
      LET cp == (c - 240) * 262144 + (b[i + 1] - 128) * 4096
                  + (b[i + 2] - 128) * 64 + (b[i + 3] - 128) - 65536 IN
        <<55296 + (cp \div 1024), 56320 + (cp % 1024)>> \o utf8DecodeAt(b, i + 4)
    ELSE <<65533>> \o utf8DecodeAt(b, i + 1)
utf8Decode(b) == utf8DecodeAt(b, 1)

\* String.prototype.split(sep) for a one-code-unit separator: the pieces
\* between consecutive separators, empty pieces included.
split(s, sep) ==
  LET at == {i \in 1..Len(s) : s[i] = sep}
      nth(k) == IF k = 0 THEN 0
                ELSE IF k > Cardinality(at) THEN Len(s) + 1
                ELSE CHOOSE p \in at : Cardinality({q \in at : q < p}) = k - 1
  IN [k \in 1..(Cardinality(at) + 1) |-> SubSeq(s, nth(k - 1) + 1, nth(k) - 1)]

(* ---------------- library primitives ----------------------------------- *)
\* One 16-bit mixing pass over a byte sequence: a weighted sum with odd,
\* position- and seed-dependent weights, so two inputs of one length that
\* differ in one byte never mix to the same value.
mixTerm(seed, s, i) ==
  IF i > Len(s) THEN 0
  ELSE (s[i] + 1) * ((2 * (((i * seed) + (i * i * 31)) % 16384)) + 1)
mixFour(seed, s, lo) ==
  mixTerm(seed, s, lo) + mixTerm(seed, s, lo + 1) + mixTerm(seed, s, lo + 2)
    + mixTerm(seed, s, lo + 3)
RECURSIVE mixFrom(_, _, _)
mixFrom(seed, s, lo) ==
  IF lo > Len(s) THEN 0
  ELSE (mixFour(seed, s, lo) + mixFour(seed, s, lo + 4) + mixFour(seed, s, lo + 8)
          + mixFour(seed, s, lo + 12) + mixFrom(seed, s, lo + 16)) % 65536
Mix(seed, s) == (mixFrom(seed % 65536, s, 1) + (seed * 31) + (Len(s) * 4099)) % 65536

\* crypto.pbkdf2Sync(password, salt, iterations, keylen, 'sha512'): a
\* deterministic function of the password bytes, the salt bytes, the iteration
\* count and the output length.
pbkdf2Sync(pwBytes, saltBytes, iterations, keylen) ==
  LET d1 == Mix((iterations % 251) + keylen, pwBytes \o <<0>> \o saltBytes)
      d2 == Mix((iterations % 241) + keylen + 7, saltBytes \o <<0>> \o pwBytes)
  IN [i \in 1..keylen |->
        IF i = 1 THEN d1 % 256
        ELSE IF i = 2 THEN d1 \div 256
        ELSE IF i = 3 THEN d2 % 256
        ELSE IF i = 4 THEN d2 \div 256
        ELSE (d1 + (i * d2) + (i * i)) % 256]

\* createCipheriv / createDecipheriv('aes-256-gcm', key, iv): the cipher
\* context, a function of all key and IV bytes.
gcmContext(key, iv) == <<Mix(1, key \o iv), Mix(2, iv \o key)>>

\* AES-256 in counter mode: the keystream byte at position i.
gcmKeystream(ctx, i) == ((ctx[1] % 256) + ((ctx[2] % 256) * (i % 256)) + ((i % 256) * 7)) % 256

\* cipher.update / decipher.update over the bytes at positions from + 1 ...
gcmCryptFrom(ctx, from, data) ==
  [i \in 1..Len(data) |-> Xor(data[i], gcmKeystream(ctx, from + i))]

gcmCrypt(key, iv, data) == gcmCryptFrom(gcmContext(key, iv), 0, data)

\* The GCM authentication tag of a context over the whole ciphertext:
\* TAG_LENGTH bytes, the first four already depending on every byte of key,
\* IV and ciphertext.
gcmTagOf(ctx, ct) ==
  LET c1 == Mix(ctx[1], ct)
      c2 == Mix(ctx[2], ct)
  IN [i \in 1..TAG_LENGTH |->
        IF i = 1 THEN c1 % 256
        ELSE IF i = 2 THEN c1 \div 256
        ELSE IF i = 3 THEN c2 % 256
        ELSE IF i = 4 THEN c2 \div 256
        ELSE (c1 + (i * (c2 % 256)) + (i * i)) % 256]

gcmTag(key, iv, ct) == gcmTagOf(gcmContext(key, iv), ct)

\* The tag lengths decipher.setAuthTag accepts for GCM when the decipher was
\* created without authTagLength.
ValidTagLengths == {4, 8, 12, 13, 14, 15, 16}


(* ---------------- src/src/main/encryption.ts --------------------------- *)
Ok(v) == [ok |-> TRUE, value |-> v, error |-> ""]
Err(msg) == [ok |-> FALSE, value |-> <<>>, error |-> msg]

ERR_FORMAT == "Invalid encrypted data format"
ERR_IV == "Invalid initialization vector"
ERR_TAG_LENGTH == "Invalid authentication tag length"
ERR_AUTH == "Unsupported state or unable to authenticate data"
ERR_TOO_SMALL == "Invalid encrypted file: too small"

\* deriveKey(password, salt): the password string is hashed as its UTF-8 bytes.
deriveKey(password, salt) == pbkdf2Sync(utf8Encode(password), salt, ITERATIONS, KEY_LENGTH)

\* encryptText handing back its input.
encryptTextPlain(text, password, salt, iv) == text

\* encryptText(text, password) with the two random draws (salt, iv) as inputs.
encryptText(text, password, salt, iv) ==
  LET key == deriveKey(password, salt)
      encrypted == gcmCrypt(key, iv, utf8Encode(text))
      authTag == gcmTag(key, iv, encrypted)
  IN toHex(salt) \o <<COLON>> \o toHex(iv) \o <<COLON>> \o toHex(authTag)
       \o <<COLON>> \o toHex(encrypted)

\* Mutant: the plaintext released without the tag being verified.
gcmOpenUnverified(key, iv, authTag, ciphertext) == Ok(gcmCrypt(key, iv, ciphertext))

\* createDecipheriv + setAuthTag + update + final on a byte buffer: the
\* plaintext bytes, released only when the tag verifies.
gcmOpen(key, iv, authTag, ciphertext) ==
  IF Len(iv) = 0 THEN Err(ERR_IV)
  ELSE IF Len(authTag) \notin ValidTagLengths THEN Err(ERR_TAG_LENGTH)
  ELSE IF SubSeq(gcmTag(key, iv, ciphertext), 1, Len(authTag)) # authTag THEN Err(ERR_AUTH)
  ELSE Ok(gcmCrypt(key, iv, ciphertext))

\* decryptText(encryptedData, password): a result, Err(message) for a throw.
decryptText(encryptedData, password) ==
  LET parts == split(encryptedData, COLON) IN
  IF Len(parts) # 4 THEN Err(ERR_FORMAT)
  ELSE
    LET salt == fromHex(parts[1])
        iv == fromHex(parts[2])
        authTag == fromHex(parts[3])
        key == deriveKey(password, salt)
        opened == gcmOpen(key, iv, authTag, fromHex(parts[4]))
    IN IF opened.ok THEN Ok(utf8Decode(opened.value)) ELSE opened

\* hashPassword(password) with its random 16 bytes as input: "salt:hash", the
\* salt handed to PBKDF2 being the hex string itself.
hashPassword(password, saltBytes) ==
  LET salt == toHex(saltBytes)
      hash == toHex(pbkdf2Sync(utf8Encode(password), utf8Encode(salt), ITERATIONS, HASH_LENGTH))
  IN salt \o <<COLON>> \o hash

\* verifyPassword(password, hashedPassword).
verifyPassword(password, hashedPassword) ==
  LET parts == split(hashedPassword, COLON)
      salt == parts[1]
      hash == IF Len(parts) >= 2 THEN parts[2] ELSE <<>>
      verifyHash == toHex(pbkdf2Sync(utf8Encode(password), utf8Encode(salt), ITERATIONS, HASH_LENGTH))
  IN hash = verifyHash

\* decryptFile with the size test off by one: a file of exactly
\* SALT_LENGTH + IV_LENGTH + TAG_LENGTH bytes is refused as too small.
decryptFileOffByOne(encryptedData, password) ==
  IF Len(encryptedData) <= SALT_LENGTH + IV_LENGTH + TAG_LENGTH THEN Err(ERR_TOO_SMALL)
  ELSE
    LET salt == SubSeq(encryptedData, 1, SALT_LENGTH)
        iv == SubSeq(encryptedData, SALT_LENGTH + 1, SALT_LENGTH + IV_LENGTH)
        authTag == SubSeq(encryptedData, Len(encryptedData) - TAG_LENGTH + 1, Len(encryptedData))
        ciphertext == SubSeq(encryptedData, SALT_LENGTH + IV_LENGTH + 1,
                             Len(encryptedData) - TAG_LENGTH)
        key == deriveKey(password, salt)
    IN gcmOpen(key, iv, authTag, ciphertext)

\* decryptFile(inputPath, outputPath, password) on the bytes readFileSync
\* returned: Ok(bytes handed to writeFileSync), or Err(message) for a reject.
decryptFile(encryptedData, password) ==
  IF Len(encryptedData) < SALT_LENGTH + IV_LENGTH + TAG_LENGTH THEN Err(ERR_TOO_SMALL)
  ELSE
    LET salt == SubSeq(encryptedData, 1, SALT_LENGTH)
        iv == SubSeq(encryptedData, SALT_LENGTH + 1, SALT_LENGTH + IV_LENGTH)
        authTag == SubSeq(encryptedData, Len(encryptedData) - TAG_LENGTH + 1, Len(encryptedData))
        ciphertext == SubSeq(encryptedData, SALT_LENGTH + IV_LENGTH + 1,
                             Len(encryptedData) - TAG_LENGTH)
        key == deriveKey(password, salt)
    IN gcmOpen(key, iv, authTag, ciphertext)

(* ---------------- input sets ---------------------------------------------- *)
\* Strings over code units of every UTF-8 width: 'A', e-acute, the euro sign,
\* a surrogate pair, and surrogates that are not paired.
Texts == {<<>>, <<65>>, <<233, 8364>>, <<55357, 56832>>, <<55357>>, <<56832, 65>>}

\* Passwords for the cipher: 'p' and two distinct unpaired surrogates.
CipherPasswords == {<<112>>, <<55296>>, <<56319>>}

\* The outputs of crypto.randomBytes the model draws from.
RandomBytes(n) == {[i \in 1..n |-> ((7 * i) + b) % 256] : b \in {3, 200}}

\* Stream sizes, scaled: the bytes one read of the input stream delivers, the
\* highWaterMark of the cipher stream, the buffered bytes from which the
\* output stream reports back-pressure, and the longest source file.
READ_CHUNK == 3
CIPHER_HWM == 2
WRITE_HWM == 83
MaxFileLen == 5

FileContents == {[i \in 1..n |-> ((37 * i) + b) % 256] : n \in 0..MaxFileLen, b \in {0, 200}}
FilePasswords == {<<112>>, <<113>>}
NoFile == [exists |-> FALSE, data |-> <<>>]
FileOf(bytes) == [exists |-> TRUE, data |-> bytes]
Min(a, b) == IF a < b THEN a ELSE b

WellFormed(s) ==
  \A i \in 1..Len(s) :
    /\ IsHighSurrogate(s[i]) => (i < Len(s) /\ IsLowSurrogate(s[i + 1]))
    /\ IsLowSurrogate(s[i]) => (i > 1 /\ IsHighSurrogate(s[i - 1]))

(* ---------------- the application: inputs and tabulated ciphers ---------- *)
\* JavaScript undefined and null, and the test `!value` the handlers apply.
Undefined == <<-1>>
Falsy(v) == v = Undefined \/ v = <<>>
NoUser == ""
EmptyMap == [k \in {} |-> k]

\* What the renderer sends: e-mail addresses, passwords, display names, user
\* ids (the ids the store hands out, in the order it hands them out), diary
\* texts, and the file the open dialog returns.
Emails == {"a@x", "b@x"}
AppPasswords == {<<112>>, <<113>>}
Names == {"Ann"}
\* updates.name as auth:updateUser may receive it: a name, the empty string,
\* or no name at all (NoName stands for undefined where a string is expected);
\* Null is SQL NULL in the users.name column.
NoName == "undefined"
Null == "null"
UpdateNames == Names \cup {"", NoName}
UserIdPool == <<"u1", "u2">>
UserIds == {UserIdPool[k] : k \in 1..Len(UserIdPool)}
EntryIdPool == <<"e1">>
EntryIds == {EntryIdPool[k] : k \in 1..Len(EntryIdPool)}
FileIdPool == <<"f1">>
FileIds == {FileIdPool[k] : k \in 1..Len(FileIdPool)}
DiaryTexts == {[title |-> <<84>>, content |-> <<67, 49>>],
               [title |-> <<85>>, content |-> <<67, 50>>]}
Titles == {<<97>>, <<98>>}
PickedFile == [path |-> "media/a.pdf", name |-> <<97, 46, 112, 100, 102>>, type |-> "pdf",
               title |-> <<97>>, bytes |-> <<37, 74, 111, 148>>]
AppTexts == {t.title : t \in DiaryTexts} \cup {t.content : t \in DiaryTexts} \cup Titles
\* A second file the open dialog of file:upload accepts, and the ids the
\* store hands out where two uploads are followed.
PickedSheet == [path |-> "media/a.xlsx", name |-> <<97, 46, 120, 108, 115, 120>>,
                type |-> "xlsx", title |-> <<97>>, bytes |-> PickedFile.bytes]
PickedFiles == {PickedFile, PickedSheet}
UploadIdPool == <<"f1", "f2">>
\* At most MaxUploading upload calls wait at their file dialog.
MaxUploading == 1
\* At most MaxRegistering auth:register calls wait at their second await.
MaxRegistering == 2
\* The clock values Date.now() can return run from 1 to MaxNow.
MaxNow == 2
\* The random bytes one handler call draws are randomBytes(n, seed) for one seed.
AppSeeds == {200}
randomBytes(n, seed) == [i \in 1..n |-> ((7 * i) + seed) % 256]

\* The placeholders diary:getAll, media:getAll and file:getAll return for a
\* row they cannot decrypt (UTF-16 code units of the two literals).
DECRYPT_ERROR_TITLE ==
  <<91, 1054, 1096, 1080, 1073, 1082, 1072, 32, 1088, 1072, 1089, 1096, 1080, 1092, 1088,
    1086, 1074, 1082, 1080, 93>>
DECRYPT_ERROR_CONTENT ==
  <<91, 1053, 1077, 32, 1091, 1076, 1072, 1083, 1086, 1089, 1100, 32, 1088, 1072, 1089, 1096,
    1080, 1092, 1088, 1086, 1074, 1072, 1090, 1100, 32, 1089, 1086, 1076, 1077, 1088, 1078,
    1080, 1084, 1086, 1077, 93>>

\* Messages of the errors the handlers return or throw.
ERR_USER_NOT_FOUND == "auth:login: user not found"
ERR_WRONG_PASSWORD == "auth:login: wrong password"
ERR_LOGIN == "auth:login: error while logging in"
ERR_REGISTER == "auth:register: error while registering"
ERR_EMAIL_TAKEN == "auth:register: a user with this email already exists"
ERR_UPDATE_NO_USER == "User not found"
ERR_NOT_AUTH_ENC == "User not authenticated for encryption"
ERR_NOT_AUTH_DEC == "User not authenticated for decryption"
ERR_UNAUTHORIZED == "Unauthorized"
ERR_ENOENT == "ENOENT: no such file or directory"
ERR_CANCELLED == "cancelled"
ERR_STREAM == "ENOSPC: no space left on device, write"

\* encryptFile as the callers see it: the files it can have left at
\* outputPath when its promise resolves. The whole file is
\* salt | iv | ciphertext | tag; when the source needs more than one read and
\* its last read is shorter than the cipher's highWaterMark, the ciphertext
\* of that last read can be missing (see InputData, InputEnd, OutputFlush).
encryptFileResults(bytes, password, salt, iv) ==
  LET ctx == gcmContext(deriveKey(password, salt), iv)
      ct == gcmCryptFrom(ctx, 0, bytes)
      authTag == gcmTagOf(ctx, ct)
      tail == Len(bytes) - (READ_CHUNK * ((Len(bytes) - 1) \div READ_CHUNK))
  IN {salt \o iv \o ct \o authTag}
       \cup (IF Len(bytes) > READ_CHUNK /\ tail < CIPHER_HWM
               THEN {salt \o iv \o SubSeq(ct, 1, Len(ct) - tail) \o authTag}
               ELSE {})

\* The ciphers and the password hasher, tabulated once over the values the
\* application can meet: each row is a call and its result.
hashPasswordTable ==
  {<<p, sd, hashPassword(p, randomBytes(HASH_SALT_BYTES, sd))>> :
     p \in AppPasswords, sd \in AppSeeds}
verifyPasswordTable ==
  {<<p, r[3], verifyPassword(p, r[3])>> : p \in AppPasswords, r \in hashPasswordTable}
encryptTextTable ==
  {<<t, p, sd, encryptText(t, p, randomBytes(SALT_LENGTH, sd), randomBytes(IV_LENGTH, sd))>> :
     t \in AppTexts, p \in AppPasswords, sd \in AppSeeds}
\* A stored blob as a damaged database holds it: one ciphertext digit
\* changed, cut to its first digits, or absent (NULL in the row, so that
\* decryptText is called with a value that has no split method).
Corrupted(b) == [b EXCEPT ![Len(b)] = IF @ = 48 THEN 49 ELSE 48]
Malformed(b) == SubSeq(b, 1, 8)
Damages == {"intact", "corrupted", "malformed", "missing"}
Damaged(b, damage) ==
  CASE damage = "intact" -> b
    [] damage = "corrupted" -> Corrupted(b)
    [] damage = "malformed" -> Malformed(b)
    [] damage = "missing" -> Undefined
ERR_TYPE == "TypeError: Cannot read properties of undefined (reading split)"
StoredBlobs == {Damaged(r[4], d) : r \in encryptTextTable, d \in Damages}
decryptTextTable ==
  {<<b, p, IF b = Undefined THEN Err(ERR_TYPE) ELSE decryptText(b, p)>> :
     b \in StoredBlobs, p \in AppPasswords}
encryptFileTable ==
  {<<p, sd, encryptFileResults(PickedFile.bytes, p, randomBytes(SALT_LENGTH, sd),
                               randomBytes(IV_LENGTH, sd))>> :
     p \in AppPasswords, sd \in AppSeeds}
\* What encryptFile has written to outputPath when one of its streams emits
\* 'error' after the salt and the IV were written: the promise rejects and
\* the output file is left as it is.
encryptFilePartial(seed) == randomBytes(SALT_LENGTH, seed) \o randomBytes(IV_LENGTH, seed)
decryptFileTable ==
  {<<f, p, decryptFile(f, p)>> :
     f \in UNION {r[3] : r \in encryptFileTable} \cup {encryptFilePartial(sd) : sd \in AppSeeds},
     p \in AppPasswords}

hashPasswordOf(password, seed) ==
  (CHOOSE r \in hashPasswordTable : r[1] = password /\ r[2] = seed)[3]
verifyPasswordOf(password, hashedPassword) ==
  (CHOOSE r \in verifyPasswordTable : r[1] = password /\ r[2] = hashedPassword)[3]
encryptTextOf(text, password, seed) ==
  (CHOOSE r \in encryptTextTable : r[1] = text /\ r[2] = password /\ r[3] = seed)[4]
decryptTextOf(encryptedData, password) ==
  (CHOOSE r \in decryptTextTable : r[1] = encryptedData /\ r[2] = password)[3]
encryptFileOf(password, seed) ==
  (CHOOSE r \in encryptFileTable : r[1] = password /\ r[2] = seed)[3]
decryptFileOf(encryptedData, password) ==
  (CHOOSE r \in decryptFileTable : r[1] = encryptedData /\ r[2] = password)[3]

VARIABLES
  \* text cipher: one encryptText call followed by one decryptText call
  plainText, textPassword, blob, storedText, candidate, decrypted, textPc,
  \* encryptFile: the source file, the three streams and the promise
  fileBytes, filePassword, fileSalt, fileIv,
  inputPos, inputFlowing, inputEnded,
  cipherText, cipherBuf, cipherFlowing, cipherCallback, cipherNeedDrain, cipherFinal,
  outputBuf, outputDisk, outputNeedDrain, outputEnding, writes, encPromise,
  \* decryptFile: the bytes read, the password, the file at outputPath, the promise
  decInput, decReadable, decPassword, plainOut, decPromise, decError,
  \* the application: the users, diary_entries and files tables, the encrypted
  \* files on disk, the key cache, the last handler's reply; and, for the
  \* properties, what the last handler passed to the store, the plaintext of
  \* each diary entry as last saved, and the users logged out since they
  \* last logged in
  users, diary_entries, files, disk, userKeys, reply, handed, saved, cleared,
  \* the process and its surroundings: whether the main process is alive,
  \* process.platform, the clock Date.now() reads, the files in os.tmpdir(),
  \* whether a BrowserWindow is open, the pending setTimeout callbacks, the
  \* last export tree written, and the auth:register calls waiting at their
  \* second await
  running, platform, now, tmpdir, windows, timers, exportDir, registering,
  \* the database file and the Database object: the tables sqlite_master
  \* lists, whether diary_entries has the obsolete linked_item_type column,
  \* the rows of the legacy tables and of diary_entries_new, the state of
  \* this.db, the statement initialize() has reached and who called it, the
  \* table names and the diary_entries columns migrateToFilesTable read, and
  \* what console.error has logged
  sqlite_master, linked_item_type, legacy, diary_entries_new, connection, initPc,
  initCaller, tableNames, diaryTableInfo, logged,
  \* the backup file database:backup wrote last, and the upload calls
  \* waiting at their file dialog
  backupFile, uploading

textVars == <<plainText, textPassword, blob, storedText, candidate, decrypted, textPc>>
encVars == <<fileBytes, filePassword, fileSalt, fileIv, inputPos, inputFlowing, inputEnded,
             cipherText, cipherBuf, cipherFlowing, cipherCallback, cipherNeedDrain,
             cipherFinal, outputBuf, outputDisk, outputNeedDrain, outputEnding, writes,
             encPromise>>
decVars == <<decInput, decReadable, decPassword, plainOut, decPromise, decError>>
fileVars == <<encVars, decVars>>
dbVars == <<sqlite_master, linked_item_type, legacy, diary_entries_new, connection, initPc,
            initCaller, tableNames, diaryTableInfo, logged, backupFile, uploading>>
procVars == <<running, platform, now, tmpdir, windows, timers, exportDir, registering,
              dbVars>>
appVars == <<users, diary_entries, files, disk, userKeys, reply, handed, saved, cleared,
             procVars>>
vars == <<textVars, fileVars, appVars>>

TextIdle ==
  /\ plainText = <<>> /\ textPassword = <<>> /\ blob = <<>> /\ storedText = <<>>
  /\ candidate = <<>> /\ decrypted = Err("") /\ textPc = "idle"

StreamsIdle ==
  /\ fileSalt = <<>> /\ fileIv = <<>>
  /\ inputPos = 0 /\ inputFlowing = FALSE /\ inputEnded = FALSE
  /\ cipherText = <<>> /\ cipherBuf = <<>> /\ cipherFlowing = FALSE
  /\ cipherCallback = FALSE /\ cipherNeedDrain = FALSE /\ cipherFinal = FALSE
  /\ outputBuf = <<>> /\ outputDisk = <<>> /\ outputNeedDrain = FALSE
  /\ outputEnding = FALSE /\ writes = <<>> /\ encPromise = "none"
  /\ decInput = <<>> /\ decReadable = TRUE /\ decPassword = <<>>
  /\ decPromise = "none" /\ decError = ""

\* What a handler gives back to the renderer: its return value, or the error
\* it throws.
Reply(handler, arg, password, ok, error, token, items, opened) ==
  [handler |-> handler, arg |-> arg, password |-> password, ok |-> ok, error |-> error,
   token |-> token, items |-> items, opened |-> opened, count |-> 0]
Returned(handler, arg) == Reply(handler, arg, <<>>, TRUE, "", "", {}, <<>>)
Failed(handler, arg, error) == Reply(handler, arg, <<>>, FALSE, error, "", {}, <<>>)
NoReply == Returned("", "")

\* The main process just started: one window, nothing opened, exported or in
\* flight.
Platforms == {"darwin", "linux"}
NoExport == [objects |-> <<>>, total_records |-> 0, copied |-> {}]

\* The tables createTables creates, the legacy tables migrateToFilesTable
\* looks for, and the store as initialize() leaves it when it has nothing
\* to migrate.
CurrentTables == {"users", "diary_entries", "files"}
LegacyTables == {"media_items", "file_items"}
NoLegacy == [t \in LegacyTables |-> EmptyMap]
NoBackup == <<>>
DbIdle ==
  /\ sqlite_master = CurrentTables
  /\ linked_item_type = FALSE
  /\ legacy = NoLegacy
  /\ diary_entries_new = EmptyMap
  /\ connection = "open"
  /\ initPc = "idle"
  /\ initCaller = "whenReady"
  /\ tableNames = {}
  /\ diaryTableInfo = {}
  /\ logged = {}
  /\ backupFile = NoBackup
  /\ uploading = <<>>

ProcIdle ==
  /\ running = TRUE
  /\ platform = "linux"
  /\ now = 1
  /\ tmpdir = EmptyMap
  /\ windows = TRUE
  /\ timers = {}
  /\ exportDir = NoExport
  /\ registering = <<>>
  /\ DbIdle

AppInit ==
  /\ users = EmptyMap
  /\ diary_entries = EmptyMap
  /\ files = EmptyMap
  /\ disk = EmptyMap
  /\ userKeys = EmptyMap
  /\ reply = NoReply
  /\ handed = <<>>
  /\ saved = EmptyMap
  /\ cleared = {}
  /\ ProcIdle

FileIdle ==
  /\ fileBytes = <<>> /\ filePassword = <<>> /\ plainOut = NoFile
  /\ StreamsIdle

(* ---------------- the text cipher in use -------------------------------- *)
join4(parts) ==
  parts[1] \o <<COLON>> \o parts[2] \o <<COLON>> \o parts[3] \o <<COLON>> \o parts[4]

\* The changes a blob's auth-tag segment (3) or ciphertext segment (4) can
\* undergo at rest, at its first and last byte: a hex letter written in upper
\* case, a hex digit replaced by the next one, the segment cut short, a
\* character appended.
TamperAt(len) == {1, 2, len - 1, len} \cap (1..len)
TamperCut(len) == {0, 1, 8, len - 2, len - 1} \cap (0..(len - 1))
Tampered(b) ==
  LET parts == split(b, COLON)
      with(seg, new) == join4([parts EXCEPT ![seg] = new])
  IN UNION {
       {with(seg, [parts[seg] EXCEPT ![k] = @ - 32]) :
          k \in {j \in TamperAt(Len(parts[seg])) : parts[seg][j] >= 97}}
       \cup {with(seg, [parts[seg] EXCEPT ![k] = HexDigit((HexVal(@) + 1) % 16)]) :
          k \in TamperAt(Len(parts[seg]))}
       \cup {with(seg, SubSeq(parts[seg], 1, n)) : n \in TamperCut(Len(parts[seg]))}
       \cup {with(seg, Append(parts[seg], c)) : c \in {48, 122}}
       : seg \in {3, 4}}

TextInit ==
  /\ plainText \in Texts
  /\ textPassword \in CipherPasswords
  /\ blob = <<>>
  /\ storedText = <<>>
  /\ candidate = <<>>
  /\ decrypted = Err("")
  /\ textPc = "start"
  /\ FileIdle
  /\ AppInit

\* encryptText(text, password), drawing the salt and the IV.
EncryptText ==
  /\ textPc = "start"
  /\ \E salt \in RandomBytes(SALT_LENGTH), iv \in RandomBytes(IV_LENGTH) :
       blob' = encryptText(plainText, textPassword, salt, iv)
  /\ storedText' = blob'
  /\ textPc' = "encrypted"
  /\ UNCHANGED <<plainText, textPassword, candidate, decrypted, fileVars, appVars>>

\* The stored blob changes before it is read back.
TamperText ==
  /\ textPc = "encrypted"
  /\ storedText' \in Tampered(blob)
  /\ textPc' = "tampered"
  /\ UNCHANGED <<plainText, textPassword, blob, candidate, decrypted, fileVars, appVars>>

\* decryptText(encryptedData, candidate).
DecryptText ==
  /\ textPc \in {"encrypted", "tampered"}
  /\ \E p \in CipherPasswords :
       /\ candidate' = p
       /\ decrypted' = decryptText(storedText, p)
  /\ textPc' = "done"
  /\ UNCHANGED <<plainText, textPassword, blob, storedText, fileVars, appVars>>

TextNext == EncryptText \/ TamperText \/ DecryptText
SpecText == TextInit /\ [][TextNext]_vars

(* ---------------- encryptFile and decryptFile in use --------------------- *)
\* A source file, a password and whatever is at the plaintext output path.
FileInit ==
  /\ TextIdle
  /\ fileBytes \in FileContents
  /\ filePassword \in FilePasswords
  /\ plainOut \in {NoFile, FileOf(<<1, 2, 3>>)}
  /\ StreamsIdle
  /\ AppInit

\* encryptFile up to the return of the promise executor: the key and the
\* cipher exist, salt and IV are queued on the output stream, the pipes are
\* set up and both readable streams are flowing.
EncryptFileStart ==
  /\ encPromise = "none"
  /\ \E salt \in RandomBytes(SALT_LENGTH), iv \in RandomBytes(IV_LENGTH) :
       /\ fileSalt' = salt
       /\ fileIv' = iv
       /\ outputBuf' = salt \o iv
  /\ writes' = <<"salt", "iv">>
  /\ inputFlowing' = TRUE
  /\ cipherFlowing' = TRUE
  /\ encPromise' = "pending"
  /\ UNCHANGED <<fileBytes, filePassword, inputPos, inputEnded, cipherText, cipherBuf,
                 cipherCallback, cipherNeedDrain, cipherFinal, outputDisk, outputNeedDrain,
                 outputEnding, decVars, textVars, appVars>>

cipherCtx == gcmContext(deriveKey(filePassword, fileSalt), fileIv)

\* One 'data' event of the input stream, through pipe's ondata into
\* cipher.write, the cipher's transform and push, and (when the cipher is
\* flowing) pipe's ondata into output.write.
InputData ==
  /\ encPromise = "pending"
  /\ inputFlowing
  /\ inputPos < Len(fileBytes)
  /\ LET chunk == SubSeq(fileBytes, inputPos + 1, Min(inputPos + READ_CHUNK, Len(fileBytes)))
         ct == gcmCryptFrom(cipherCtx, inputPos, chunk)
         emit == cipherFlowing /\ cipherBuf = <<>>
         refused == emit /\ Len(outputBuf) + Len(ct) >= WRITE_HWM
         deferred == ~emit /\ Len(cipherBuf) + Len(ct) >= CIPHER_HWM
         full == Len(chunk) >= CIPHER_HWM
     IN /\ inputPos' = inputPos + Len(chunk)
        /\ cipherText' = cipherText \o ct
        /\ outputBuf' = IF emit THEN outputBuf \o ct ELSE outputBuf
        /\ writes' = IF emit THEN Append(writes, "ct") ELSE writes
        /\ cipherBuf' = IF emit THEN cipherBuf ELSE cipherBuf \o ct
        /\ cipherFlowing' = (cipherFlowing /\ ~refused)
        /\ outputNeedDrain' = (outputNeedDrain \/ refused)
        /\ cipherCallback' = deferred
        /\ cipherNeedDrain' = full
        /\ inputFlowing' = ~full
  /\ UNCHANGED <<fileBytes, filePassword, fileSalt, fileIv, inputEnded, cipherFinal,
                 outputDisk, outputEnding, encPromise, decVars, textVars, appVars>>

\* 'drain' of the cipher's writable side, emitted once the write that filled
\* it has called back: pipe resumes the input stream.
CipherDrain ==
  /\ encPromise = "pending"
  /\ cipherNeedDrain
  /\ ~cipherCallback
  /\ cipherNeedDrain' = FALSE
  /\ inputFlowing' = TRUE
  /\ UNCHANGED <<fileBytes, filePassword, fileSalt, fileIv, inputPos, inputEnded, cipherText,
                 cipherBuf, cipherFlowing, cipherCallback, cipherFinal, outputBuf, outputDisk,
                 outputNeedDrain, outputEnding, writes, encPromise, decVars, textVars, appVars>>

\* 'end' of the input stream. Its listeners run in the order they were added:
\* pipe's onend calls cipher.end(), which finalizes the cipher at once unless
\* a write is still waiting for its callback; then the handler of lines
\* 111-115 reads the tag, writes it and ends the output stream. getAuthTag on
\* a cipher that is not finalized throws out of the event handler.
InputEnd ==
  /\ encPromise = "pending"
  /\ inputFlowing
  /\ ~inputEnded
  /\ inputPos = Len(fileBytes)
  /\ inputEnded' = TRUE
  /\ cipherFinal' = ~cipherCallback
  /\ IF cipherFinal'
       THEN /\ outputBuf' = outputBuf \o gcmTagOf(cipherCtx, cipherText)
            /\ writes' = Append(writes, "tag")
            /\ outputEnding' = TRUE
            /\ encPromise' = encPromise
       ELSE /\ encPromise' = "uncaught"
            /\ UNCHANGED <<outputBuf, writes, outputEnding>>
  /\ UNCHANGED <<fileBytes, filePassword, fileSalt, fileIv, inputPos, inputFlowing, cipherText,
                 cipherBuf, cipherFlowing, cipherCallback, cipherNeedDrain, outputDisk,
                 outputNeedDrain, decVars, textVars, appVars>>

\* The output stream has written what it had buffered. After end() this is
\* 'finish', which resolves the promise; otherwise, when a write had been
\* refused, it is 'drain': pipe resumes the cipher, whose buffered ciphertext
\* flows into output.write and whose waiting write callback is released.
OutputFlush ==
  /\ encPromise = "pending"
  /\ outputBuf # <<>>
  /\ outputDisk' = outputDisk \o outputBuf
  /\ IF outputEnding
       THEN /\ encPromise' = "resolved"
            /\ outputBuf' = <<>>
            /\ UNCHANGED <<cipherBuf, cipherFlowing, cipherCallback, outputNeedDrain, writes>>
       ELSE /\ encPromise' = encPromise
            /\ IF outputNeedDrain
                 THEN LET refused == Len(cipherBuf) >= WRITE_HWM
                      IN /\ outputBuf' = cipherBuf
                         /\ writes' = IF cipherBuf # <<>> THEN Append(writes, "ct") ELSE writes
                         /\ cipherBuf' = <<>>
                         /\ cipherFlowing' = ~refused
                         /\ outputNeedDrain' = refused
                         /\ cipherCallback' = FALSE
                 ELSE /\ outputBuf' = <<>>
                      /\ UNCHANGED <<cipherBuf, cipherFlowing, cipherCallback, outputNeedDrain,
                                     writes>>
  /\ UNCHANGED <<fileBytes, filePassword, fileSalt, fileIv, inputPos, inputFlowing, inputEnded,
                 cipherText, cipherNeedDrain, cipherFinal, outputEnding, decVars, textVars, appVars>>

\* The files decryptFile is given: the file encryptFile produced, that file
\* cut short, and that file with one byte of its salt, IV, ciphertext or tag
\* changed.
TamperedFiles ==
  {[outputDisk EXCEPT ![k] = (@ + 1) % 256] :
     k \in {1, SALT_LENGTH + 1, SALT_LENGTH + IV_LENGTH + 1, Len(outputDisk)}
             \cap (1..Len(outputDisk))}
EncryptedInputs ==
  {SubSeq(outputDisk, 1, n) :
     n \in {0, SALT_LENGTH + IV_LENGTH + TAG_LENGTH - 1, SALT_LENGTH + IV_LENGTH + TAG_LENGTH,
            Len(outputDisk)} \cap (0..Len(outputDisk))}
    \cup TamperedFiles

\* decryptFile writing what decipher.update returns before decipher.final
\* has verified the tag.
DecryptFileStreamed ==
  /\ encPromise = "resolved"
  /\ decPromise = "none"
  /\ \E data \in EncryptedInputs, p \in FilePasswords, readable \in BOOLEAN :
       LET r == IF readable THEN decryptFile(data, p) ELSE Err(ERR_ENOENT)
           body == SubSeq(data, SALT_LENGTH + IV_LENGTH + 1, Len(data) - TAG_LENGTH)
       IN /\ decInput' = data
          /\ decReadable' = readable
          /\ decPassword' = p
          /\ plainOut' = IF r.ok THEN FileOf(r.value)
                         ELSE IF r.error = ERR_AUTH THEN FileOf(body)
                         ELSE plainOut
          /\ decPromise' = IF r.ok THEN "resolved" ELSE "rejected"
          /\ decError' = r.error
  /\ UNCHANGED <<encVars, textVars, appVars>>

\* decryptFile(inputPath, outputPath, password), whole: readFileSync throws
\* when the input cannot be read; the promise executor is synchronous, and
\* writeFileSync is reached only after decipher.final().
DecryptFile ==
  /\ encPromise = "resolved"
  /\ decPromise = "none"
  /\ \E data \in EncryptedInputs, p \in FilePasswords, readable \in BOOLEAN :
       LET r == IF readable THEN decryptFile(data, p) ELSE Err(ERR_ENOENT)
       IN /\ decInput' = data
          /\ decReadable' = readable
          /\ decPassword' = p
          /\ plainOut' = IF r.ok THEN FileOf(r.value) ELSE plainOut
          /\ decPromise' = IF r.ok THEN "resolved" ELSE "rejected"
          /\ decError' = r.error
  /\ UNCHANGED <<encVars, textVars, appVars>>

FileNext ==
  \/ EncryptFileStart
  \/ InputData
  \/ CipherDrain
  \/ InputEnd
  \/ OutputFlush
  \/ DecryptFile

SpecFile == FileInit /\ [][FileNext]_vars

(* ---------------- the key cache (src/src/main/encryption.ts) -------------- *)
setUserEncryptionKey(userId, password) ==
  [u \in DOMAIN userKeys \cup {userId} |-> IF u = userId THEN password ELSE userKeys[u]]
getUserEncryptionKey(userId) ==
  IF userId \in DOMAIN userKeys THEN userKeys[userId] ELSE Undefined
\* clearUserEncryptionKey leaving the entry in place.
clearUserEncryptionKeyKept(userId) == userKeys
clearUserEncryptionKey(userId) ==
  [u \in DOMAIN userKeys \ {userId} |-> userKeys[u]]

(* ---------------- the store (src/src/storage/database.ts) ----------------- *)
\* crypto.randomUUID(): an id no row of the table has.
FreshId(pool, table) == pool[Cardinality(DOMAIN table) + 1]
HasFreshId(pool, table) == Cardinality(DOMAIN table) < Len(pool)

\* The users table without UNIQUE on its email column.
emailUniqueDropped(email) == TRUE
\* users.email is UNIQUE: the INSERT of createUser fails when a row holds the
\* email.
emailUnique(email) == \A u \in DOMAIN users : users[u].email # email
createUser(id, email, passwordHash, name) ==
  [u \in DOMAIN users \cup {id} |->
     IF u = id THEN [email |-> email, password_hash |-> passwordHash, name |-> name]
     ELSE users[u]]
getUserByEmail(email) ==
  IF \E u \in DOMAIN users : users[u].email = email
    THEN CHOOSE u \in DOMAIN users : users[u].email = email
    ELSE NoUser
getUserById(id) == IF id \in DOMAIN users THEN id ELSE NoUser
\* `updates.name || null`, the value both UPDATE statements bind to name.
nameOrNull(name) == IF name = NoName \/ name = "" THEN Null ELSE name
\* With a password: name and password_hash are both written (the new hash
\* draws its salt from seed). Without one: name alone, and only when
\* updates.name is not undefined. Otherwise no statement runs.
updateUser(id, updates, seed) ==
  IF ~Falsy(updates.password)
    THEN [users EXCEPT ![id] = [email |-> @.email,
                                password_hash |-> hashPasswordOf(updates.password, seed),
                                name |-> nameOrNull(updates.name)]]
    ELSE IF updates.name # NoName
      THEN [users EXCEPT ![id] = [email |-> @.email, password_hash |-> @.password_hash,
                                  name |-> nameOrNull(updates.name)]]
      ELSE users

\* A diary_entries row keeps user_id, title and content, a files row user_id,
\* name, path and metadata.title; types, modes, links and dates are left out.
saveDiaryEntry(id, entry) ==
  [e \in DOMAIN diary_entries \cup {id} |->
     IF e = id THEN [user_id |-> entry.userId, title |-> entry.title, content |-> entry.content]
     ELSE diary_entries[e]]
getDiaryEntries(userId) == {e \in DOMAIN diary_entries : diary_entries[e].user_id = userId}
updateDiaryEntry(id, entry) ==
  IF id \in DOMAIN diary_entries
    THEN [diary_entries EXCEPT ![id] = [user_id |-> @.user_id, title |-> entry.title,
                                        content |-> entry.content]]
    ELSE diary_entries

saveFileItem(id, item) ==
  [f \in DOMAIN files \cup {id} |->
     IF f = id THEN [user_id |-> item.userId, name |-> item.name, path |-> item.path,
                     type |-> item.type, metadata_title |-> item.metadata_title]
     ELSE files[f]]
getFileItems(userId) == {f \in DOMAIN files : files[f].user_id = userId}
updateFileItem(id, metadata_title) ==
  IF id \in DOMAIN files
    THEN [files EXCEPT ![id] = [user_id |-> @.user_id, name |-> metadata_title,
                                path |-> @.path, type |-> @.type,
                                metadata_title |-> metadata_title]]
    ELSE files

\* CHECK(type IN (...)) of the files table, and the error of an INSERT that
\* fails it.
FileTypes == {"photo", "video", "audio", "pdf", "txt", "docx", "spreadsheet"}
ERR_CHECK == "SQLITE_CONSTRAINT: CHECK constraint failed: files"

(* ---------------- the IPC handlers (main.ts) -------------------------------- *)
\* auth:login writing the key cache before it has verified the password.
AuthLoginKeyFirst ==
  /\ running /\ windows
  /\ \E email \in Emails, password \in AppPasswords, storeError \in BOOLEAN :
       LET user == getUserByEmail(email)
           request == Reply("auth:login", email, password, FALSE, "", "", {}, <<>>)
       IN IF storeError
            THEN /\ reply' = [request EXCEPT !.error = ERR_LOGIN]
                 /\ UNCHANGED <<userKeys, cleared>>
          ELSE IF user = NoUser
            THEN /\ reply' = [request EXCEPT !.error = ERR_USER_NOT_FOUND]
                 /\ UNCHANGED <<userKeys, cleared>>
          ELSE /\ userKeys' = setUserEncryptionKey(user, password)
               /\ cleared' = cleared \ {user}
               /\ reply' = IF verifyPasswordOf(password, users[user].password_hash)
                              THEN [request EXCEPT !.ok = TRUE, !.token = user]
                              ELSE [request EXCEPT !.error = ERR_WRONG_PASSWORD]
  /\ handed' = <<>>
  /\ UNCHANGED <<users, diary_entries, files, disk, saved, textVars, fileVars, procVars>>

\* auth:login, the store failing or not; on a closed connection db.get rejects.
AuthLogin ==
  /\ running /\ windows
  /\ \E email \in Emails, password \in AppPasswords,
        storeError \in (IF connection = "open" THEN BOOLEAN ELSE {TRUE}) :
       LET user == getUserByEmail(email)
           request == Reply("auth:login", email, password, FALSE, "", "", {}, <<>>)
       IN IF storeError
            THEN /\ reply' = [request EXCEPT !.error = ERR_LOGIN]
                 /\ UNCHANGED <<userKeys, cleared>>
          ELSE IF user = NoUser
            THEN /\ reply' = [request EXCEPT !.error = ERR_USER_NOT_FOUND]
                 /\ UNCHANGED <<userKeys, cleared>>
          ELSE IF ~verifyPasswordOf(password, users[user].password_hash)
            THEN /\ reply' = [request EXCEPT !.error = ERR_WRONG_PASSWORD]
                 /\ UNCHANGED <<userKeys, cleared>>
          ELSE /\ userKeys' = setUserEncryptionKey(user, password)
               /\ reply' = [request EXCEPT !.ok = TRUE, !.token = user]
               /\ cleared' = cleared \ {user}
  /\ handed' = <<>>
  /\ UNCHANGED <<users, diary_entries, files, disk, saved, textVars, fileVars, procVars>>

\* auth:register.
AuthRegister ==
  /\ running /\ windows
  /\ \E email \in Emails, password \in AppPasswords, name \in Names, seed \in AppSeeds :
       LET request == Reply("auth:register", email, password, FALSE, "", "", {}, <<>>)
           userId == FreshId(UserIdPool, users)
       IN IF getUserByEmail(email) # NoUser
            THEN /\ reply' = [request EXCEPT !.error = ERR_EMAIL_TAKEN]
                 /\ UNCHANGED <<users, userKeys, cleared>>
            ELSE /\ HasFreshId(UserIdPool, users)
                 /\ users' = createUser(userId, email, hashPasswordOf(password, seed), name)
                 /\ userKeys' = setUserEncryptionKey(userId, password)
                 /\ reply' = [request EXCEPT !.ok = TRUE, !.token = userId]
                 /\ cleared' = cleared \ {userId}
  /\ handed' = <<>>
  /\ UNCHANGED <<diary_entries, files, disk, saved, textVars, fileVars, procVars>>

\* auth:register as the event loop runs it, in two steps. First step: the
\* lookup await db.getUserByEmail(email) has answered; an existing account
\* ends the call, otherwise the call goes on to its second await.
RegisterLookup ==
  /\ running /\ windows
  /\ \E email \in Emails, password \in AppPasswords, name \in Names :
       LET request == Reply("auth:register", email, password, FALSE, "", "", {}, <<>>)
       IN IF getUserByEmail(email) # NoUser
            THEN /\ reply' = [request EXCEPT !.error = ERR_EMAIL_TAKEN]
                 /\ handed' = <<>>
                 /\ UNCHANGED registering
            ELSE /\ Len(registering) < MaxRegistering
                 /\ registering' = Append(registering, [email |-> email, password |-> password,
                                                        name |-> name])
                 /\ UNCHANGED <<reply, handed>>
  /\ UNCHANGED <<users, diary_entries, files, disk, userKeys, saved, cleared, textVars,
                 fileVars, running, platform, now, tmpdir, windows, timers, exportDir, dbVars>>

\* Second step of one waiting call: hashPassword, then the INSERT of
\* db.createUser; when it throws on the UNIQUE email the catch returns the
\* registration error, otherwise the key is cached and the token returned.
RegisterCreate ==
  /\ running /\ windows
  /\ \E k \in 1..Len(registering), seed \in AppSeeds :
       LET call == registering[k]
           request == Reply("auth:register", call.email, call.password, FALSE, "", "", {}, <<>>)
           userId == FreshId(UserIdPool, users)
       IN /\ registering' = SubSeq(registering, 1, k - 1)
                              \o SubSeq(registering, k + 1, Len(registering))
          /\ IF ~emailUnique(call.email)
               THEN /\ reply' = [request EXCEPT !.error = ERR_REGISTER]
                    /\ UNCHANGED <<users, userKeys, cleared>>
               ELSE /\ HasFreshId(UserIdPool, users)
                    /\ users' = createUser(userId, call.email,
                                           hashPasswordOf(call.password, seed), call.name)
                    /\ userKeys' = setUserEncryptionKey(userId, call.password)
                    /\ reply' = [request EXCEPT !.ok = TRUE, !.token = userId]
                    /\ cleared' = cleared \ {userId}
  /\ handed' = <<>>
  /\ UNCHANGED <<diary_entries, files, disk, saved, textVars, fileVars, running, platform,
                 now, tmpdir, windows, timers, exportDir, dbVars>>

\* auth:updateUser: updates goes to Database.updateUser as it arrives, with
\* a name drawn from names and with or without a password. The reply records
\* the request: the userId in arg, updates.password in password, updates.name
\* in token.
AuthUpdateUserOf(names) ==
  /\ running /\ windows
  /\ \E userId \in UserIds, name \in names, password \in AppPasswords \cup {Undefined},
        seed \in AppSeeds :
       LET updates == [name |-> name, password |-> password]
       IN IF getUserById(userId) = NoUser
            THEN /\ reply' = Failed("auth:updateUser", userId, ERR_UPDATE_NO_USER)
                 /\ users' = users
            ELSE /\ users' = updateUser(userId, updates, seed)
                 /\ reply' = Reply("auth:updateUser", userId, password, TRUE, "", name, {}, <<>>)
  /\ handed' = <<>>
  /\ UNCHANGED <<diary_entries, files, disk, userKeys, saved, cleared, textVars, fileVars, procVars>>

\* The call of the profile page, which always sends the edited name and, when
\* the password is being changed, the new password.
AuthUpdateUser == AuthUpdateUserOf(Names)

\* auth:logout; the renderer sends the id of its user, or none.
AuthLogout ==
  /\ running /\ windows
  /\ \E userId \in UserIds \cup {NoUser} :
       /\ userKeys' = IF userId # NoUser THEN clearUserEncryptionKey(userId) ELSE userKeys
       /\ cleared' = IF userId # NoUser THEN cleared \cup {userId} ELSE cleared
       /\ reply' = Returned("auth:logout", userId)
  /\ handed' = <<>>
  /\ UNCHANGED <<users, diary_entries, files, disk, saved, textVars, fileVars, procVars>>

\* diary:save.
DiarySave ==
  /\ running /\ windows
  /\ HasFreshId(EntryIdPool, diary_entries)
  /\ \E userId \in UserIds, entry \in DiaryTexts, seed \in AppSeeds :
       LET userPassword == getUserEncryptionKey(userId)
           id == FreshId(EntryIdPool, diary_entries)
           encryptedEntry == [userId |-> userId,
                              title |-> encryptTextOf(entry.title, userPassword, seed),
                              content |-> encryptTextOf(entry.content, userPassword, seed)]
       IN IF Falsy(userPassword)
            THEN /\ reply' = Failed("diary:save", userId, ERR_NOT_AUTH_ENC)
                 /\ handed' = <<>>
                 /\ UNCHANGED <<diary_entries, saved>>
            ELSE /\ diary_entries' = saveDiaryEntry(id, encryptedEntry)
                 /\ handed' = <<encryptedEntry.title, encryptedEntry.content>>
                 /\ saved' = [e \in DOMAIN saved \cup {id} |->
                                IF e = id THEN [by |-> userId, title |-> entry.title,
                                                content |-> entry.content]
                                ELSE saved[e]]
                 /\ reply' = [Returned("diary:save", userId) EXCEPT !.token = id]
  /\ UNCHANGED <<users, files, disk, userKeys, cleared, textVars, fileVars, procVars>>

\* diary:getAll's row mapping without its inner try/catch: the stored
\* fields are passed on when decryptText throws.
DecryptedEntryUncaught(id, userPassword) ==
  LET title == decryptTextOf(diary_entries[id].title, userPassword)
      content == decryptTextOf(diary_entries[id].content, userPassword)
  IN IF title.ok /\ content.ok
       THEN [id |-> id, title |-> title.value, content |-> content.value]
       ELSE [id |-> id, title |-> diary_entries[id].title,
             content |-> diary_entries[id].content]

\* One row as diary:getAll maps it: decrypted, or the placeholders when
\* decryptText throws.
DecryptedEntry(id, userPassword) ==
  LET title == decryptTextOf(diary_entries[id].title, userPassword)
      content == decryptTextOf(diary_entries[id].content, userPassword)
  IN IF title.ok /\ content.ok
       THEN [id |-> id, title |-> title.value, content |-> content.value]
       ELSE [id |-> id, title |-> DECRYPT_ERROR_TITLE, content |-> DECRYPT_ERROR_CONTENT]

\* diary:getAll.
DiaryGetAll ==
  /\ running /\ windows
  /\ \E userId \in UserIds :
       LET entries == getDiaryEntries(userId)
           userPassword == getUserEncryptionKey(userId)
       IN reply' = IF Falsy(userPassword)
                     THEN Failed("diary:getAll", userId, ERR_NOT_AUTH_DEC)
                     ELSE [Returned("diary:getAll", userId) EXCEPT
                             !.items = {DecryptedEntry(e, userPassword) : e \in entries}]
  /\ handed' = <<>>
  /\ UNCHANGED <<users, diary_entries, files, disk, userKeys, saved, cleared, textVars,
                 fileVars, procVars>>

\* diary:update.
DiaryUpdate ==
  /\ running /\ windows
  /\ \E id \in EntryIds, userId \in UserIds, entry \in DiaryTexts, seed \in AppSeeds :
       LET userPassword == getUserEncryptionKey(userId)
           encryptedEntry == [title |-> encryptTextOf(entry.title, userPassword, seed),
                              content |-> encryptTextOf(entry.content, userPassword, seed)]
       IN IF Falsy(userPassword)
            THEN /\ reply' = Failed("diary:update", userId, ERR_NOT_AUTH_ENC)
                 /\ handed' = <<>>
                 /\ UNCHANGED <<diary_entries, saved>>
            ELSE /\ diary_entries' = updateDiaryEntry(id, encryptedEntry)
                 /\ handed' = <<encryptedEntry.title, encryptedEntry.content>>
                 /\ saved' = IF id \in DOMAIN saved
                               THEN [saved EXCEPT ![id] = [by |-> userId, title |-> entry.title,
                                                           content |-> entry.content]]
                               ELSE saved
                 /\ reply' = Returned("diary:update", userId)
  /\ UNCHANGED <<users, files, disk, userKeys, cleared, textVars, fileVars, procVars>>

\* The file system calls of the upload handlers on the map from paths to
\* file contents.
writeFile(path, bytes) ==
  [q \in DOMAIN disk \cup {path} |-> IF q = path THEN bytes ELSE disk[q]]
unlink(fs, path) == [q \in DOMAIN fs \ {path} |-> fs[q]]

\* How an upload can go once the user and the key are there: the dialog is
\* cancelled, fs.copyFile fails before it has written, encryptFile rejects on
\* a stream error, or everything succeeds.
UploadOutcomes == {"cancelled", "copy failed", "encrypt failed", "saved"}

\* The upload handlers calling handleFileUpload before they look up the key.
UploadCopyFirst(handler, encryptedName) ==
  /\ running /\ windows
  /\ HasFreshId(FileIdPool, files)
  /\ \E userId \in UserIds, outcome \in UploadOutcomes, seed \in AppSeeds :
       LET userPassword == getUserEncryptionKey(userId)
           encryptedPath == "media/a.pdf.enc"
           encryptedTitle == encryptTextOf(PickedFile.title, userPassword, seed)
           id == FreshId(FileIdPool, files)
           item == [userId |-> userId,
                    name |-> IF encryptedName THEN encryptedTitle ELSE PickedFile.name,
                    path |-> encryptedPath,
                    type |-> IF encryptedName THEN "photo" ELSE PickedFile.type,
                    metadata_title |-> encryptedTitle]
       IN IF getUserById(userId) = NoUser
            THEN /\ reply' = Failed(handler, userId, ERR_UNAUTHORIZED)
                 /\ handed' = <<>>
                 /\ UNCHANGED <<files, disk>>
          ELSE IF Falsy(userPassword)
            THEN /\ reply' = Failed(handler, userId, ERR_NOT_AUTH_ENC)
                 /\ handed' = <<>>
                 /\ disk' = writeFile(PickedFile.path, PickedFile.bytes)
                 /\ UNCHANGED files
          ELSE IF outcome \in {"cancelled", "copy failed"}
            THEN /\ reply' = Returned(handler, userId)
                 /\ handed' = <<>>
                 /\ UNCHANGED <<files, disk>>
          ELSE IF outcome = "encrypt failed"
            THEN /\ reply' = Failed(handler, userId, ERR_STREAM)
                 /\ handed' = <<>>
                 /\ disk' = [q \in DOMAIN disk \cup {PickedFile.path, encryptedPath} |->
                               IF q = PickedFile.path THEN PickedFile.bytes
                               ELSE IF q = encryptedPath THEN encryptFilePartial(seed)
                               ELSE disk[q]]
                 /\ UNCHANGED files
          ELSE /\ \E encrypted \in encryptFileOf(userPassword, seed) :
                    disk' = unlink([q \in DOMAIN disk \cup {encryptedPath} |->
                                      IF q = encryptedPath THEN encrypted ELSE disk[q]],
                                   PickedFile.path)
               /\ files' = saveFileItem(id, item)
               /\ handed' = <<encryptedTitle>>
               /\ reply' = [Returned(handler, userId) EXCEPT
                              !.token = id,
                              !.items = {[id |-> id, title |-> PickedFile.title,
                                          content |-> <<>>]}]
  /\ UNCHANGED <<users, diary_entries, userKeys, saved, cleared, textVars, fileVars, procVars>>

\* media:upload (encryptedName) and file:upload (plain name), whole: the user
\* and the key are looked up first; handleFileUpload shows the dialog and
\* copies the picked file to PickedFile.path in the media directory;
\* encryptFile leaves one of its results at path + '.enc'; the copy is
\* unlinked; the title is encrypted and the row is saved. When encryptFile
\* rejects, the handler throws from the await and nothing after it runs.
Upload(handler, encryptedName) ==
  /\ running /\ windows
  /\ HasFreshId(FileIdPool, files)
  /\ \E userId \in UserIds, outcome \in UploadOutcomes, seed \in AppSeeds :
       LET userPassword == getUserEncryptionKey(userId)
           encryptedPath == "media/a.pdf.enc"
           encryptedTitle == encryptTextOf(PickedFile.title, userPassword, seed)
           id == FreshId(FileIdPool, files)
           item == [userId |-> userId,
                    name |-> IF encryptedName THEN encryptedTitle ELSE PickedFile.name,
                    path |-> encryptedPath,
                    type |-> IF encryptedName THEN "photo" ELSE PickedFile.type,
                    metadata_title |-> encryptedTitle]
       IN IF getUserById(userId) = NoUser
            THEN /\ reply' = Failed(handler, userId, ERR_UNAUTHORIZED)
                 /\ handed' = <<>>
                 /\ UNCHANGED <<files, disk>>
          ELSE IF Falsy(userPassword)
            THEN /\ reply' = Failed(handler, userId, ERR_NOT_AUTH_ENC)
                 /\ handed' = <<>>
                 /\ UNCHANGED <<files, disk>>
          ELSE IF outcome \in {"cancelled", "copy failed"}
            THEN /\ reply' = Returned(handler, userId)
                 /\ handed' = <<>>
                 /\ UNCHANGED <<files, disk>>
          ELSE IF outcome = "encrypt failed"
            THEN /\ reply' = Failed(handler, userId, ERR_STREAM)
                 /\ handed' = <<>>
                 /\ disk' = [q \in DOMAIN disk \cup {PickedFile.path, encryptedPath} |->
                               IF q = PickedFile.path THEN PickedFile.bytes
                               ELSE IF q = encryptedPath THEN encryptFilePartial(seed)
                               ELSE disk[q]]
                 /\ UNCHANGED files
          ELSE /\ \E encrypted \in encryptFileOf(userPassword, seed) :
                    disk' = unlink([q \in DOMAIN disk \cup {encryptedPath} |->
                                      IF q = encryptedPath THEN encrypted ELSE disk[q]],
                                   PickedFile.path)
               /\ files' = saveFileItem(id, item)
               /\ handed' = <<encryptedTitle>>
               /\ reply' = [Returned(handler, userId) EXCEPT
                              !.token = id,
                              !.items = {[id |-> id, title |-> PickedFile.title,
                                          content |-> <<>>]}]
  /\ UNCHANGED <<users, diary_entries, userKeys, saved, cleared, textVars, fileVars, procVars>>

\* media:upload and file:upload up to await handleFileUpload(...): the user
\* and the key are looked up, the password stays in the handler's
\* userPassword, and the call waits for the dialog.
UploadBegin(handler, encryptedName) ==
  /\ running /\ windows
  /\ Len(uploading) < MaxUploading
  /\ \E userId \in UserIds :
       LET userPassword == getUserEncryptionKey(userId)
       IN IF getUserById(userId) = NoUser
            THEN /\ reply' = Failed(handler, userId, ERR_UNAUTHORIZED)
                 /\ UNCHANGED uploading
          ELSE IF Falsy(userPassword)
            THEN /\ reply' = Failed(handler, userId, ERR_NOT_AUTH_ENC)
                 /\ UNCHANGED uploading
          ELSE /\ uploading' = Append(uploading, [handler |-> handler,
                                                  encryptedName |-> encryptedName,
                                                  userId |-> userId,
                                                  userPassword |-> userPassword])
               /\ UNCHANGED reply
  /\ handed' = <<>>
  /\ UNCHANGED <<users, diary_entries, files, disk, userKeys, saved, cleared, textVars,
                 fileVars, running, platform, now, tmpdir, windows, timers, exportDir,
                 registering, sqlite_master, linked_item_type, legacy, diary_entries_new,
                 connection, initPc, initCaller, tableNames, diaryTableInfo, logged,
                 backupFile>>

\* media:upload and file:upload from the end of the dialog on, with the
\* password read before it: handleFileUpload copies the picked file into the
\* media directory under its base name and derives type from its extension;
\* encryptFile writes path + '.enc'; the copy is unlinked; the title is
\* encrypted; the INSERT of saveFileItem fails on a type outside the CHECK
\* of files.type, and the handler rethrows.
UploadResume ==
  /\ running /\ windows
  /\ HasFreshId(UploadIdPool, files)
  /\ \E k \in 1..Len(uploading), picked \in PickedFiles, outcome \in UploadOutcomes,
        seed \in AppSeeds :
       LET call == uploading[k]
           encryptedPath == picked.path \o ".enc"
           encryptedTitle == encryptTextOf(picked.title, call.userPassword, seed)
           id == FreshId(UploadIdPool, files)
           item == [userId |-> call.userId,
                    name |-> IF call.encryptedName THEN encryptedTitle ELSE picked.name,
                    path |-> encryptedPath,
                    type |-> IF call.encryptedName THEN "photo" ELSE picked.type,
                    metadata_title |-> encryptedTitle]
       IN /\ uploading' = SubSeq(uploading, 1, k - 1)
                            \o SubSeq(uploading, k + 1, Len(uploading))
          /\ IF outcome \in {"cancelled", "copy failed"}
               THEN /\ reply' = Returned(call.handler, call.userId)
                    /\ handed' = <<>>
                    /\ UNCHANGED <<files, disk>>
             ELSE IF outcome = "encrypt failed"
               THEN /\ reply' = Failed(call.handler, call.userId, ERR_STREAM)
                    /\ handed' = <<>>
                    /\ disk' = [q \in DOMAIN disk \cup {picked.path, encryptedPath} |->
                                  IF q = picked.path THEN picked.bytes
                                  ELSE IF q = encryptedPath THEN encryptFilePartial(seed)
                                  ELSE disk[q]]
                    /\ UNCHANGED files
             ELSE /\ \E encrypted \in encryptFileOf(call.userPassword, seed) :
                       disk' = unlink([q \in DOMAIN disk \cup {encryptedPath} |->
                                         IF q = encryptedPath THEN encrypted ELSE disk[q]],
                                      picked.path)
                  /\ handed' = <<encryptedTitle>>
                  /\ IF item.type \in FileTypes
                       THEN /\ files' = saveFileItem(id, item)
                            /\ reply' = [Returned(call.handler, call.userId) EXCEPT
                                           !.token = id,
                                           !.items = {[id |-> id, title |-> picked.title,
                                                       content |-> <<>>]}]
                       ELSE /\ reply' = Failed(call.handler, call.userId, ERR_CHECK)
                            /\ UNCHANGED files
  /\ UNCHANGED <<users, diary_entries, userKeys, saved, cleared, textVars,
                 fileVars, running, platform, now, tmpdir, windows, timers, exportDir,
                 registering, sqlite_master, linked_item_type, legacy, diary_entries_new,
                 connection, initPc, initCaller, tableNames, diaryTableInfo, logged,
                 backupFile>>

MediaUpload == Upload("media:upload", TRUE)
FileUpload == Upload("file:upload", FALSE)

\* One row as media:getAll and file:getAll map it.
DecryptedItem(id, userPassword) ==
  LET title == decryptTextOf(files[id].metadata_title, userPassword)
  IN [id |-> id, title |-> IF title.ok THEN title.value ELSE DECRYPT_ERROR_TITLE,
      content |-> <<>>]

\* media:getAll and file:getAll.
GetAllItems(handler) ==
  /\ running /\ windows
  /\ \E userId \in UserIds :
       LET items == getFileItems(userId)
           userPassword == getUserEncryptionKey(userId)
       IN reply' = IF Falsy(userPassword)
                     THEN Failed(handler, userId, ERR_NOT_AUTH_DEC)
                     ELSE [Returned(handler, userId) EXCEPT
                             !.items = {DecryptedItem(f, userPassword) : f \in items}]
  /\ handed' = <<>>
  /\ UNCHANGED <<users, diary_entries, files, disk, userKeys, saved, cleared, textVars,
                 fileVars, procVars>>

MediaGetAll == GetAllItems("media:getAll")
FileGetAll == GetAllItems("file:getAll")

\* file:open, whole: decryptFile into os.tmpdir() under a name made from
\* Date.now(), shell.openPath, and a setTimeout that will unlink the file.
\* decryptFile writes nothing when it rejects, and the handler then throws
\* before the timer is set.
FileOpen ==
  /\ running /\ windows
  /\ \E encryptedPath \in {"media/a.pdf.enc"}, userId \in UserIds :
       LET userPassword == getUserEncryptionKey(userId)
           request == "file:open"
           tempPath == now
           r == IF encryptedPath \in DOMAIN disk
                  THEN decryptFileOf(disk[encryptedPath], userPassword)
                  ELSE Err(ERR_ENOENT)
       IN IF Falsy(userPassword)
            THEN /\ reply' = Failed(request, userId, ERR_NOT_AUTH_DEC)
                 /\ UNCHANGED <<tmpdir, timers>>
          ELSE IF ~r.ok
            THEN /\ reply' = Failed(request, userId, r.error)
                 /\ UNCHANGED <<tmpdir, timers>>
          ELSE /\ reply' = [Returned(request, userId) EXCEPT !.opened = r.value]
               /\ tmpdir' = [t \in DOMAIN tmpdir \cup {tempPath} |->
                               IF t = tempPath THEN r.value ELSE tmpdir[t]]
               /\ timers' = timers \cup {tempPath}
  /\ handed' = <<>>
  /\ UNCHANGED <<users, diary_entries, files, disk, userKeys, saved, cleared, textVars,
                 fileVars, running, platform, now, windows, exportDir, registering, dbVars>>

\* The callback file:open passed to setTimeout: unlink the temporary file if
\* it still exists.
CleanupTimerAt(tempPath) ==
  /\ running
  /\ tempPath \in timers
  /\ timers' = timers \ {tempPath}
  /\ tmpdir' = [t \in DOMAIN tmpdir \ {tempPath} |-> tmpdir[t]]
  /\ UNCHANGED <<users, diary_entries, files, disk, userKeys, reply, handed, saved, cleared,
                 textVars, fileVars, running, platform, now, windows, exportDir,
                 registering, dbVars>>

CleanupTimer == \E tempPath \in 1..MaxNow : CleanupTimerAt(tempPath)

\* Time passes: Date.now() returns a later value.
Tick ==
  /\ now < MaxNow
  /\ now' = now + 1
  /\ UNCHANGED <<users, diary_entries, files, disk, userKeys, reply, handed, saved, cleared,
                 textVars, fileVars, running, platform, tmpdir, windows, timers, exportDir,
                 registering, dbVars>>

\* app.on('window-all-closed'): the last window is closed; app.quit() unless
\* the platform is darwin. Quitting ends the process: its Map of keys, its
\* timers and its pending handlers are gone, the files stay.
WindowAllClosed ==
  /\ running /\ windows
  /\ windows' = FALSE
  /\ IF platform # "darwin"
       THEN /\ running' = FALSE
            /\ userKeys' = EmptyMap
            /\ timers' = {}
            /\ registering' = <<>>
       ELSE UNCHANGED <<running, userKeys, timers, registering>>
  /\ UNCHANGED <<users, diary_entries, files, disk, reply, handed, saved, cleared, textVars,
                 fileVars, platform, now, tmpdir, exportDir, dbVars>>

\* app.on('activate'): with the process alive and no window, createWindow().
Activate ==
  /\ running /\ ~windows
  /\ windows' = TRUE
  /\ UNCHANGED <<users, diary_entries, files, disk, userKeys, reply, handed, saved, cleared,
                 textVars, fileVars, running, platform, now, tmpdir, timers, exportDir,
                 registering, dbVars>>

\* database:exportForAI. The directories it creates with mkdirSync, as
\* pairs under the export directory.
ExportDirsWithAudio ==
  {<<"diary", "text">>, <<"diary", "audio">>, <<"media", "photo">>, <<"media", "video">>,
   <<"media", "audio">>, <<"files", "pdf">>, <<"files", "docx">>, <<"files", "spreadsheet">>,
   <<"schema", "">>}
ExportDirs ==
  {<<"diary", "text">>, <<"diary", "audio">>, <<"media", "photo">>, <<"media", "video">>,
   <<"files", "pdf">>, <<"files", "docx">>, <<"files", "spreadsheet">>, <<"schema", "">>}
mediaTypeDir(type) ==
  IF type = "photo" THEN "photo" ELSE IF type = "video" THEN "video" ELSE "audio"
fileTypeDir(type) ==
  IF type = "pdf" THEN "pdf"
  ELSE IF type \in {"docx", "txt"} THEN "docx"
  ELSE IF type = "spreadsheet" THEN "spreadsheet"
  ELSE "other"
\* item.path.replace('.enc', '.tmp') on the paths the rows hold.
tempDecryptedOf(path) ==
  CASE path = "media/a.pdf.enc" -> "media/a.pdf.tmp"
    [] path = "media/b.pdf.enc" -> "media/b.pdf.tmp"
writeFileSync(fs, path, bytes) ==
  [q \in DOMAIN fs \cup {path} |-> IF q = path THEN bytes ELSE fs[q]]
\* The order in which the store returns rows.
RowOrder == <<"e1", "e2", "e3", "e4", "f1", "f2">>
RECURSIVE rowsFrom(_, _)
rowsFrom(k, ids) ==
  IF k > Len(RowOrder) THEN <<>>
  ELSE (IF RowOrder[k] \in ids THEN <<RowOrder[k]>> ELSE <<>>) \o rowsFrom(k + 1, ids)

\* One pass of the diary loop, given what decryptText returned for the two
\* fields: write the text file, push the object line, count; a throw skips
\* the entry.
exportEntryWith(st, id, title, content) ==
  IF ~title.ok \/ ~content.ok THEN st
  ELSE [st EXCEPT !.copied = @ \cup {[path |-> <<"diary", "text", id>>,
                                      data |-> content.value]},
                  !.objects = Append(@, [uuid |-> id, type |-> "diary"]),
                  !.totalCount = @ + 1]
exportEntry(st, id, userPassword) ==
  exportEntryWith(st, id, decryptTextOf(diary_entries[id].title, userPassword),
                  decryptTextOf(diary_entries[id].content, userPassword))
RECURSIVE exportEntries(_, _, _)
exportEntries(st, entries, userPassword) ==
  IF entries = <<>> THEN st
  ELSE exportEntries(exportEntry(st, Head(entries), userPassword), Tail(entries), userPassword)

\* One pass of the media loop (kind "media") or of the files loop (kind
\* "file"), given what decryptText returned for the title and what decryptFile
\* does with the encrypted file: if the file exists, decryptFile into the
\* .tmp sibling, copyFileSync into the export tree, unlinkSync the .tmp, push
\* the object line, count. Any throw leaves the pass where it is:
\* copyFileSync throws when the target directory was not created.
exportItemWith(st, id, kind, title, r) ==
  LET row == files[id]
      top == IF kind = "media" THEN "media" ELSE "files"
      dir == IF kind = "media" THEN mediaTypeDir(row.type) ELSE fileTypeDir(row.type)
      tempDecrypted == tempDecryptedOf(row.path)
  IN IF ~title.ok THEN st
     ELSE IF row.path \notin DOMAIN st.fs THEN st
     ELSE IF ~r.ok THEN st
     ELSE IF <<top, dir>> \notin ExportDirs
       THEN [st EXCEPT !.fs = writeFileSync(@, tempDecrypted, r.value)]
     ELSE [st EXCEPT !.fs = unlink(writeFileSync(@, tempDecrypted, r.value), tempDecrypted),
                     !.copied = @ \cup {[path |-> <<top, dir, id>>, data |-> r.value]},
                     !.objects = Append(@, [uuid |-> id, type |-> kind]),
                     !.totalCount = @ + 1]
exportItem(st, id, kind, userPassword) ==
  exportItemWith(st, id, kind, decryptTextOf(files[id].metadata_title, userPassword),
                 IF files[id].path \in DOMAIN st.fs
                   THEN decryptFileOf(st.fs[files[id].path], userPassword)
                   ELSE Err(ERR_ENOENT))
RECURSIVE exportItems(_, _, _, _)
exportItems(st, items, kind, userPassword) ==
  IF items = <<>> THEN st
  ELSE exportItems(exportItem(st, Head(items), kind, userPassword), Tail(items), kind,
                   userPassword)

\* database:exportForAI, whole: the folder dialog, the directories, the key,
\* the rows (getMediaItems and getFileItems both read the files table), the
\* three loops, objects.jsonl and manifest.json; every throw outside the
\* loops is returned as success: false.
DatabaseExportForAI ==
  /\ running /\ windows
  /\ \E userId \in UserIds, cancelled \in BOOLEAN :
       LET request == "database:exportForAI"
           userPassword == getUserEncryptionKey(userId)
           diaryEntries == rowsFrom(1, getDiaryEntries(userId))
           mediaItems == rowsFrom(1, getFileItems(userId))
           fileItems == rowsFrom(1, getFileItems(userId))
           start == [fs |-> disk, copied |-> {}, objects |-> <<>>, totalCount |-> 0]
       IN IF cancelled
            THEN /\ reply' = Failed(request, userId, ERR_CANCELLED)
                 /\ UNCHANGED <<disk, exportDir>>
          ELSE IF Falsy(userPassword)
            THEN /\ reply' = Failed(request, userId, ERR_NOT_AUTH_DEC)
                 /\ exportDir' = NoExport
                 /\ UNCHANGED disk
          ELSE \E done \in {exportItems(
                               exportItems(exportEntries(start, diaryEntries, userPassword),
                                           mediaItems, "media", userPassword),
                               fileItems, "file", userPassword)} :
                 /\ disk' = done.fs
                 /\ exportDir' = [objects |-> done.objects,
                                  total_records |-> done.totalCount, copied |-> done.copied]
                 /\ reply' = [Returned(request, userId) EXCEPT !.count = done.totalCount]
  /\ handed' = <<>>
  /\ UNCHANGED <<users, diary_entries, files, userKeys, saved, cleared, textVars, fileVars,
                 running, platform, now, tmpdir, windows, timers, registering, dbVars>>

\* media:updateMetadata and file:updateMetadata.
UpdateMetadata(handler) ==
  /\ running /\ windows
  /\ \E id \in FileIds, title \in Titles, userId \in UserIds, seed \in AppSeeds :
       LET userPassword == getUserEncryptionKey(userId)
           encryptedTitle == encryptTextOf(title, userPassword, seed)
       IN IF Falsy(userPassword)
            THEN /\ reply' = Failed(handler, userId, ERR_NOT_AUTH_ENC)
                 /\ handed' = <<>>
                 /\ files' = files
            ELSE /\ files' = updateFileItem(id, encryptedTitle)
                 /\ handed' = <<encryptedTitle>>
                 /\ reply' = Returned(handler, userId)
  /\ UNCHANGED <<users, diary_entries, disk, userKeys, saved, cleared, textVars, fileVars, procVars>>

MediaUpdateMetadata == UpdateMetadata("media:updateMetadata")
FileUpdateMetadata == UpdateMetadata("file:updateMetadata")

\* A fresh installation: empty tables, empty key cache.
Init == TextIdle /\ FileIdle /\ AppInit

\* Accounts, sessions and the diary.
Next ==
  \/ AuthLogin
  \/ AuthRegister
  \/ AuthUpdateUser
  \/ AuthLogout
  \/ DiarySave
  \/ DiaryGetAll
  \/ DiaryUpdate

Spec == Init /\ [][Next]_vars

\* Accounts and their profile: auth:updateUser with every shape of updates the
\* channel accepts.
ProfileNext ==
  \/ AuthRegister
  \/ AuthLogin
  \/ AuthUpdateUserOf(UpdateNames)

SpecProfile == Init /\ [][ProfileNext]_vars

\* An installation with two accounts, registered in turn and both logged in.
StoreInit ==
  /\ TextIdle
  /\ FileIdle
  /\ users = [u \in UserIds |->
                IF u = "u1"
                  THEN [email |-> "a@x", password_hash |-> hashPasswordOf(<<112>>, 200),
                        name |-> "Ann"]
                  ELSE [email |-> "b@x", password_hash |-> hashPasswordOf(<<113>>, 200),
                        name |-> "Ann"]]
  /\ userKeys = [u \in UserIds |-> IF u = "u1" THEN <<112>> ELSE <<113>>]
  /\ diary_entries = EmptyMap
  /\ files = EmptyMap
  /\ disk = EmptyMap
  /\ reply = NoReply
  /\ handed = <<>>
  /\ saved = EmptyMap
  /\ cleared = {}
  /\ ProcIdle

\* Sessions, the diary, uploads and their metadata.
StoreNext ==
  \/ AuthLogin
  \/ AuthLogout
  \/ DiarySave
  \/ DiaryGetAll
  \/ DiaryUpdate
  \/ MediaUpload
  \/ FileUpload
  \/ MediaGetAll
  \/ FileGetAll
  \/ FileOpen
  \/ MediaUpdateMetadata
  \/ FileUpdateMetadata

SpecStore == StoreInit /\ [][StoreNext]_vars

\* An installation whose database file has been damaged or restored from a
\* damaged backup: three diary rows and two files rows of the first user,
\* each with one field in one of the Damages, and one intact diary row of the
\* second user. saved keeps the texts the rows were encrypted from.
BatchEntries == {"e1", "e2", "e3"}
BatchFiles == {"f1", "f2"}
BatchText(id) ==
  IF id \in {"e1", "e3", "e4"} THEN [title |-> <<84>>, content |-> <<67, 49>>]
  ELSE IF id = "e2" THEN [title |-> <<85>>, content |-> <<67, 50>>]
  ELSE IF id = "f1" THEN [title |-> <<97>>, content |-> <<>>]
  ELSE [title |-> <<98>>, content |-> <<>>]
BatchDiaryRow(id, damage) ==
  LET t == BatchText(id)
  IN IF id = "e4"
       THEN [user_id |-> "u2", title |-> encryptTextOf(t.title, <<113>>, 200),
             content |-> encryptTextOf(t.content, <<113>>, 200)]
     ELSE IF id = "e2"
       THEN [user_id |-> "u1", title |-> encryptTextOf(t.title, <<112>>, 200),
             content |-> Damaged(encryptTextOf(t.content, <<112>>, 200), damage)]
     ELSE [user_id |-> "u1", title |-> Damaged(encryptTextOf(t.title, <<112>>, 200), damage),
           content |-> encryptTextOf(t.content, <<112>>, 200)]
BatchFileRow(id, type, damage) ==
  [user_id |-> "u1", name |-> <<97, 46, 112, 100, 102>>,
   path |-> IF id = "f1" THEN "media/a.pdf.enc" ELSE "media/b.pdf.enc", type |-> type,
   metadata_title |-> Damaged(encryptTextOf(BatchText(id).title, <<112>>, 200), damage)]

BatchInit ==
  /\ TextIdle
  /\ FileIdle
  /\ users = [u \in UserIds |->
                IF u = "u1"
                  THEN [email |-> "a@x", password_hash |-> hashPasswordOf(<<112>>, 200),
                        name |-> "Ann"]
                  ELSE [email |-> "b@x", password_hash |-> hashPasswordOf(<<113>>, 200),
                        name |-> "Ann"]]
  /\ userKeys = [u \in UserIds |-> IF u = "u1" THEN <<112>> ELSE <<113>>]
  /\ \E damage \in [BatchEntries \cup BatchFiles -> Damages] :
       /\ diary_entries = [e \in BatchEntries \cup {"e4"} |->
                             BatchDiaryRow(e, IF e = "e4" THEN "intact" ELSE damage[e])]
       /\ files = [f \in BatchFiles |-> BatchFileRow(f, "pdf", damage[f])]
  /\ disk = EmptyMap
  /\ reply = NoReply
  /\ handed = <<>>
  /\ saved = [id \in BatchEntries \cup {"e4"} \cup BatchFiles |->
                [by |-> IF id = "e4" THEN "u2" ELSE "u1", title |-> BatchText(id).title,
                 content |-> BatchText(id).content]]
  /\ cleared = {}
  /\ ProcIdle

\* The listings.
BatchNext ==
  \/ DiaryGetAll
  \/ MediaGetAll
  \/ FileGetAll

SpecBatch == BatchInit /\ [][BatchNext]_vars

\* A fresh installation with registrations overlapping at their awaits.
RegisterNext ==
  \/ RegisterLookup
  \/ RegisterCreate
  \/ AuthLogin
  \/ AuthLogout

SpecRegister == Init /\ [][RegisterNext]_vars

\* An installation to export from: two diary rows and two files rows of the
\* first user and a diary row of the second; one diary field and one title
\* in one of the Damages, the rows' types among those files.type allows, and
\* each encrypted file as encryptFile left it, or gone.
ExportTypes == {"photo", "audio", "pdf", "spreadsheet"}
ExportInit ==
  /\ TextIdle
  /\ FileIdle
  /\ users = [u \in UserIds |->
                IF u = "u1"
                  THEN [email |-> "a@x", password_hash |-> hashPasswordOf(<<112>>, 200),
                        name |-> "Ann"]
                  ELSE [email |-> "b@x", password_hash |-> hashPasswordOf(<<113>>, 200),
                        name |-> "Ann"]]
  /\ userKeys = [u \in UserIds |-> IF u = "u1" THEN <<112>> ELSE <<113>>]
  /\ \E damage \in {"intact", "corrupted", "missing"} :
       diary_entries = [e \in {"e1", "e2", "e4"} |->
                          BatchDiaryRow(e, IF e = "e2" THEN damage ELSE "intact")]
  /\ \E type1 \in ExportTypes, type2 \in {"photo", "pdf"}, damage \in {"intact", "corrupted"} :
       files = [f \in BatchFiles |->
                  IF f = "f1" THEN BatchFileRow(f, type1, damage)
                  ELSE BatchFileRow(f, type2, "intact")]
  /\ \E file1 \in encryptFileOf(<<112>>, 200) \cup {<<>>}, file2 \in encryptFileOf(<<112>>, 200) :
       disk = [q \in (IF file1 = <<>> THEN {} ELSE {"media/a.pdf.enc"}) \cup {"media/b.pdf.enc"}
                 |-> IF q = "media/a.pdf.enc" THEN file1 ELSE file2]
  /\ reply = NoReply
  /\ handed = <<>>
  /\ saved = [id \in {"e1", "e2", "e4"} \cup BatchFiles |->
                [by |-> IF id = "e4" THEN "u2" ELSE "u1", title |-> BatchText(id).title,
                 content |-> BatchText(id).content]]
  /\ cleared = {}
  /\ ProcIdle

ExportNext ==
  \/ DatabaseExportForAI
  \/ AuthLogout

SpecExport == ExportInit /\ [][ExportNext]_vars

\* The two accounts on either platform; uploads, file:open and its timers,
\* and the windows. A pending timer fires while the process is alive.
SessionInit ==
  /\ TextIdle
  /\ FileIdle
  /\ users = [u \in UserIds |->
                IF u = "u1"
                  THEN [email |-> "a@x", password_hash |-> hashPasswordOf(<<112>>, 200),
                        name |-> "Ann"]
                  ELSE [email |-> "b@x", password_hash |-> hashPasswordOf(<<113>>, 200),
                        name |-> "Ann"]]
  /\ userKeys = [u \in UserIds |-> IF u = "u1" THEN <<112>> ELSE <<113>>]
  /\ diary_entries = EmptyMap
  /\ files = EmptyMap
  /\ disk = EmptyMap
  /\ reply = NoReply
  /\ handed = <<>>
  /\ saved = EmptyMap
  /\ cleared = {}
  /\ running = TRUE
  /\ platform \in Platforms
  /\ now = 1
  /\ tmpdir = EmptyMap
  /\ windows = TRUE
  /\ timers = {}
  /\ exportDir = NoExport
  /\ registering = <<>>
  /\ DbIdle

SessionNext ==
  \/ AuthLogout
  \/ FileUpload
  \/ FileOpen
  \/ CleanupTimer
  \/ Tick
  \/ WindowAllClosed
  \/ Activate

SpecSession ==
  /\ SessionInit
  /\ [][SessionNext]_vars
  /\ \A tempPath \in 1..MaxNow : WF_vars(CleanupTimerAt(tempPath))

(* ---------------- Database.initialize (src/src/storage/database.ts) ------- *)
\* Every db.exec and db.all of initialize() is awaited on its own and runs
\* outside a transaction, so each statement is one step and takes effect
\* when it ends; the four statements of the diary_entries rebuild are one
\* exec string, which sqlite runs statement by statement.
ERR_CREATE_TABLES == "Error in createTables"
ERR_MIGRATE == "Error in migrateToFilesTable"

\* app.whenReady(): the main process starts and calls db.initialize().
WhenReady ==
  /\ ~running
  /\ initPc = "stopped"
  /\ running' = TRUE
  /\ initPc' = "open"
  /\ initCaller' = "whenReady"
  /\ UNCHANGED <<users, diary_entries, files, disk, userKeys, reply, handed, saved, cleared,
                 textVars, fileVars, platform, now, tmpdir, windows, timers, exportDir,
                 registering, sqlite_master, linked_item_type, legacy, diary_entries_new,
                 connection, tableNames, diaryTableInfo, logged,
                 backupFile, uploading>>

\* initialize(): this.db = await open(...).
Initialize ==
  /\ running
  /\ initPc = "open"
  /\ connection' = "open"
  /\ initPc' = "createTables"
  /\ UNCHANGED <<users, diary_entries, files, disk, userKeys, reply, handed, saved, cleared,
                 textVars, fileVars, running, platform, now, tmpdir, windows, timers,
                 exportDir, registering, sqlite_master, linked_item_type, legacy,
                 diary_entries_new, initCaller, tableNames, diaryTableInfo, logged,
                 backupFile, uploading>>

\* createTables with CREATE TABLE in place of CREATE TABLE IF NOT EXISTS: the
\* statement fails on a table that exists, and initialize() rethrows.
CreateTablesStrict ==
  /\ running
  /\ initPc = "createTables"
  /\ IF sqlite_master \cap CurrentTables # {}
       THEN /\ logged' = logged \cup {ERR_CREATE_TABLES}
            /\ initPc' = "failed"
            /\ UNCHANGED <<sqlite_master, linked_item_type>>
       ELSE /\ sqlite_master' = sqlite_master \cup CurrentTables
            /\ linked_item_type' = FALSE
            /\ initPc' = "migrate"
            /\ UNCHANGED logged
  /\ UNCHANGED <<users, diary_entries, files, disk, userKeys, reply, handed, saved, cleared,
                 textVars, fileVars, running, platform, now, tmpdir, windows, timers,
                 exportDir, registering, legacy, diary_entries_new, connection, initCaller,
                 tableNames, diaryTableInfo,
                 backupFile, uploading>>

\* createTables: the three CREATE TABLE IF NOT EXISTS statements. A table
\* that exists keeps its columns and rows; a diary_entries created here has
\* no linked_item_type column.
CreateTables ==
  /\ running
  /\ initPc = "createTables"
  /\ sqlite_master' = sqlite_master \cup CurrentTables
  /\ linked_item_type' = IF "diary_entries" \in sqlite_master THEN linked_item_type ELSE FALSE
  /\ initPc' = "migrate"
  /\ UNCHANGED <<users, diary_entries, files, disk, userKeys, reply, handed, saved, cleared,
                 textVars, fileVars, running, platform, now, tmpdir, windows, timers,
                 exportDir, registering, legacy, diary_entries_new, connection, initCaller,
                 tableNames, diaryTableInfo, logged,
                 backupFile, uploading>>

\* Where migrateToFilesTable goes after the legacy table at position k of
\* its two if statements: to the INSERT of the next legacy table it found,
\* or on to PRAGMA table_info.
afterLegacy(k, names) ==
  IF k < 1 /\ "media_items" \in names THEN "insert media_items"
  ELSE IF k < 2 /\ "file_items" \in names THEN "insert file_items"
  ELSE "table_info"

\* migrateToFilesTable: SELECT name FROM sqlite_master. createTables has
\* created files by now, so hasFiles is true and the CREATE TABLE files of
\* lines 96-110 is never run.
MigrateToFilesTable ==
  /\ running
  /\ initPc = "migrate"
  /\ tableNames' = sqlite_master
  /\ initPc' = afterLegacy(0, sqlite_master)
  /\ UNCHANGED <<users, diary_entries, files, disk, userKeys, reply, handed, saved, cleared,
                 textVars, fileVars, running, platform, now, tmpdir, windows, timers,
                 exportDir, registering, sqlite_master, linked_item_type, legacy,
                 diary_entries_new, connection, initCaller, diaryTableInfo, logged,
                 backupFile, uploading>>

\* The files row INSERT ... SELECT makes of a legacy row: media_items.title
\* goes to files.name, every other column to the column of its name.
filesRowOf(t, row) ==
  [user_id |-> row.user_id, name |-> IF t = "media_items" THEN row.title ELSE row.name,
   path |-> row.path, type |-> row.type, metadata_title |-> row.metadata_title]

\* The INSERT fails as a whole when a row breaks a constraint of files: its
\* primary key, the CHECK on type, or NOT NULL on name.
insertable(t) ==
  \A id \in DOMAIN legacy[t] :
    /\ id \notin DOMAIN files
    /\ filesRowOf(t, legacy[t][id]).type \in FileTypes
    /\ filesRowOf(t, legacy[t][id]).name # Undefined

\* The catch of migrateToFilesTable: log, do not rethrow; initialize() goes
\* on to return.
MigrateCaught ==
  /\ logged' = logged \cup {ERR_MIGRATE}
  /\ initPc' = "initialized"

\* INSERT INTO files (...) SELECT ... FROM media_items / file_items.
InsertLegacy(t) ==
  /\ running
  /\ initPc = "insert " \o t
  /\ IF insertable(t)
       THEN /\ files' = [f \in DOMAIN files \cup DOMAIN legacy[t] |->
                           IF f \in DOMAIN legacy[t] THEN filesRowOf(t, legacy[t][f])
                           ELSE files[f]]
            /\ initPc' = "drop " \o t
            /\ UNCHANGED logged
       ELSE /\ MigrateCaught
            /\ UNCHANGED files
  /\ UNCHANGED <<users, diary_entries, disk, userKeys, reply, handed, saved, cleared,
                 textVars, fileVars, running, platform, now, tmpdir, windows, timers,
                 exportDir, registering, sqlite_master, linked_item_type, legacy,
                 diary_entries_new, connection, initCaller, tableNames, diaryTableInfo,
                 backupFile, uploading>>

\* DROP TABLE media_items / file_items.
DropLegacy(t) ==
  /\ running
  /\ initPc = "drop " \o t
  /\ sqlite_master' = sqlite_master \ {t}
  /\ legacy' = [legacy EXCEPT ![t] = EmptyMap]
  /\ initPc' = afterLegacy(IF t = "media_items" THEN 1 ELSE 2, tableNames)
  /\ UNCHANGED <<users, diary_entries, files, disk, userKeys, reply, handed, saved, cleared,
                 textVars, fileVars, running, platform, now, tmpdir, windows, timers,
                 exportDir, registering, linked_item_type, diary_entries_new, connection,
                 initCaller, tableNames, diaryTableInfo, logged,
                 backupFile, uploading>>

\* PRAGMA table_info(diary_entries) and the test for linked_item_type.
TableInfo ==
  /\ running
  /\ initPc = "table_info"
  /\ diaryTableInfo' = IF linked_item_type THEN {"linked_item_type"} ELSE {}
  /\ initPc' = IF linked_item_type THEN "create diary_entries_new" ELSE "initialized"
  /\ UNCHANGED <<users, diary_entries, files, disk, userKeys, reply, handed, saved, cleared,
                 textVars, fileVars, running, platform, now, tmpdir, windows, timers,
                 exportDir, registering, sqlite_master, linked_item_type, legacy,
                 diary_entries_new, connection, initCaller, tableNames, logged,
                 backupFile, uploading>>

\* CREATE TABLE diary_entries_new (...): fails when the table exists.
RebuildCreate ==
  /\ running
  /\ initPc = "create diary_entries_new"
  /\ IF "diary_entries_new" \in sqlite_master
       THEN /\ MigrateCaught
            /\ UNCHANGED sqlite_master
       ELSE /\ sqlite_master' = sqlite_master \cup {"diary_entries_new"}
            /\ initPc' = "copy diary_entries"
            /\ UNCHANGED logged
  /\ UNCHANGED <<users, diary_entries, files, disk, userKeys, reply, handed, saved, cleared,
                 textVars, fileVars, running, platform, now, tmpdir, windows, timers,
                 exportDir, registering, linked_item_type, legacy, diary_entries_new,
                 connection, initCaller, tableNames, diaryTableInfo,
                 backupFile, uploading>>

\* INSERT INTO diary_entries_new (...) SELECT ... FROM diary_entries.
RebuildCopy ==
  /\ running
  /\ initPc = "copy diary_entries"
  /\ diary_entries_new' = diary_entries
  /\ initPc' = "drop diary_entries"
  /\ UNCHANGED <<users, diary_entries, files, disk, userKeys, reply, handed, saved, cleared,
                 textVars, fileVars, running, platform, now, tmpdir, windows, timers,
                 exportDir, registering, sqlite_master, linked_item_type, legacy, connection,
                 initCaller, tableNames, diaryTableInfo, logged,
                 backupFile, uploading>>

\* DROP TABLE diary_entries.
RebuildDrop ==
  /\ running
  /\ initPc = "drop diary_entries"
  /\ sqlite_master' = sqlite_master \ {"diary_entries"}
  /\ diary_entries' = EmptyMap
  /\ linked_item_type' = FALSE
  /\ initPc' = "rename diary_entries_new"
  /\ UNCHANGED <<users, files, disk, userKeys, reply, handed, saved, cleared,
                 textVars, fileVars, running, platform, now, tmpdir, windows, timers,
                 exportDir, registering, legacy, diary_entries_new, connection, initCaller,
                 tableNames, diaryTableInfo, logged,
                 backupFile, uploading>>

\* ALTER TABLE diary_entries_new RENAME TO diary_entries.
RebuildRename ==
  /\ running
  /\ initPc = "rename diary_entries_new"
  /\ sqlite_master' = (sqlite_master \ {"diary_entries_new"}) \cup {"diary_entries"}
  /\ diary_entries' = diary_entries_new
  /\ diary_entries_new' = EmptyMap
  /\ initPc' = "initialized"
  /\ UNCHANGED <<users, files, disk, userKeys, reply, handed, saved, cleared,
                 textVars, fileVars, running, platform, now, tmpdir, windows, timers,
                 exportDir, registering, linked_item_type, legacy, connection, initCaller,
                 tableNames, diaryTableInfo, logged,
                 backupFile, uploading>>

\* initialize() has returned to app.whenReady(): the handlers are set up and
\* the window is created.
CreateWindow ==
  /\ running
  /\ initPc = "initialized"
  /\ initCaller = "whenReady"
  /\ windows' = TRUE
  /\ initPc' = "idle"
  /\ UNCHANGED <<users, diary_entries, files, disk, userKeys, reply, handed, saved, cleared,
                 textVars, fileVars, running, platform, now, tmpdir, timers, exportDir,
                 registering, sqlite_master, linked_item_type, legacy, diary_entries_new,
                 connection, initCaller, tableNames, diaryTableInfo, logged,
                 backupFile, uploading>>

\* The main process ends where it is: killed, crashed, or the machine lost
\* power. What it held in memory is gone, the database file stays as the
\* statements that ended left it.
Kill ==
  /\ running
  /\ running' = FALSE
  /\ windows' = FALSE
  /\ connection' = "none"
  /\ initPc' = "stopped"
  /\ tableNames' = {}
  /\ diaryTableInfo' = {}
  /\ userKeys' = EmptyMap
  /\ timers' = {}
  /\ registering' = <<>>
  /\ uploading' = <<>>
  /\ UNCHANGED <<users, diary_entries, files, disk, reply, handed, saved, cleared,
                 textVars, fileVars, platform, now, tmpdir, exportDir, sqlite_master,
                 linked_item_type, legacy, diary_entries_new, initCaller, logged,
                 backupFile>>

\* The database file as fs.copyFileSync copies it.
storeFile ==
  [users |-> users, diary_entries |-> diary_entries, files |-> files,
   sqlite_master |-> sqlite_master, linked_item_type |-> linked_item_type,
   legacy |-> legacy, diary_entries_new |-> diary_entries_new]

ERR_COPY == "copyFileSync failed"
ERR_CLOSED == "SQLITE_MISUSE: Database is closed"

\* database:backup: the save dialog is cancelled, or the database file is
\* copied to the chosen path, or the copy fails.
DatabaseBackup ==
  /\ running /\ windows
  /\ \E outcome \in {"cancelled", "copy failed", "saved"} :
       IF outcome = "cancelled"
         THEN /\ reply' = Failed("database:backup", "", ERR_CANCELLED)
              /\ UNCHANGED backupFile
       ELSE IF outcome = "copy failed"
         THEN /\ reply' = Failed("database:backup", "", ERR_COPY)
              /\ UNCHANGED backupFile
       ELSE /\ backupFile' = storeFile
            /\ reply' = Returned("database:backup", "")
  /\ handed' = <<>>
  /\ UNCHANGED <<users, diary_entries, files, disk, userKeys, saved, cleared, textVars,
                 fileVars, running, platform, now, tmpdir, windows, timers, exportDir,
                 registering, sqlite_master, linked_item_type, legacy, diary_entries_new,
                 connection, initPc, initCaller, tableNames, diaryTableInfo, logged,
                 uploading>>

\* database:restore up to await db.close(): either dialog is cancelled, or
\* the backup is confirmed and the handler waits for the connection to
\* close. Closing a handle that is closed already rejects, and the catch
\* returns the error. One restore runs at a time.
DatabaseRestore ==
  /\ running /\ windows
  /\ initPc = "idle"
  /\ \E outcome \in {"cancelled", "confirmed"} :
       IF outcome = "cancelled" \/ backupFile = NoBackup
         THEN /\ reply' = Failed("database:restore", "", ERR_CANCELLED)
              /\ UNCHANGED <<initPc, initCaller>>
       ELSE IF connection = "closed"
         THEN /\ reply' = Failed("database:restore", "", ERR_CLOSED)
              /\ UNCHANGED <<initPc, initCaller>>
       ELSE /\ initPc' = "closing"
            /\ initCaller' = "database:restore"
            /\ UNCHANGED reply
  /\ handed' = <<>>
  /\ UNCHANGED <<users, diary_entries, files, disk, userKeys, saved, cleared, textVars,
                 fileVars, running, platform, now, tmpdir, windows, timers, exportDir,
                 registering, sqlite_master, linked_item_type, legacy, diary_entries_new,
                 connection, tableNames, diaryTableInfo, logged, backupFile, uploading>>

\* database:restore from the end of db.close() to await db.initialize():
\* the connection is closed; fs.copyFileSync replaces the database file by
\* the backup and initialize() is called, or the copy throws and the catch
\* returns the error.
RestoreReplace ==
  /\ running
  /\ initPc = "closing"
  /\ connection' = "closed"
  /\ \E copied \in BOOLEAN :
       IF copied
         THEN /\ users' = backupFile.users
              /\ diary_entries' = backupFile.diary_entries
              /\ files' = backupFile.files
              /\ sqlite_master' = backupFile.sqlite_master
              /\ linked_item_type' = backupFile.linked_item_type
              /\ legacy' = backupFile.legacy
              /\ diary_entries_new' = backupFile.diary_entries_new
              /\ initPc' = "open"
              /\ UNCHANGED reply
         ELSE /\ reply' = Failed("database:restore", "", ERR_COPY)
              /\ initPc' = "idle"
              /\ UNCHANGED <<users, diary_entries, files, sqlite_master, linked_item_type,
                             legacy, diary_entries_new>>
  /\ UNCHANGED <<disk, userKeys, handed, saved, cleared, textVars, fileVars, running,
                 platform, now, tmpdir, windows, timers, exportDir, registering, initCaller,
                 tableNames, diaryTableInfo, logged, backupFile, uploading>>

\* database:restore ending the sessions when the store has been replaced.
RestoreReturnLoggedOut ==
  /\ running
  /\ initPc = "initialized"
  /\ initCaller = "database:restore"
  /\ reply' = Returned("database:restore", "")
  /\ initPc' = "idle"
  /\ userKeys' = EmptyMap
  /\ UNCHANGED <<users, diary_entries, files, disk, handed, saved, cleared,
                 textVars, fileVars, running, platform, now, tmpdir, windows, timers,
                 exportDir, registering, sqlite_master, linked_item_type, legacy,
                 diary_entries_new, connection, initCaller, tableNames, diaryTableInfo,
                 logged, backupFile, uploading>>

\* database:restore after await db.initialize(): success.
RestoreReturn ==
  /\ running
  /\ initPc = "initialized"
  /\ initCaller = "database:restore"
  /\ reply' = Returned("database:restore", "")
  /\ initPc' = "idle"
  /\ UNCHANGED <<users, diary_entries, files, disk, userKeys, handed, saved, cleared,
                 textVars, fileVars, running, platform, now, tmpdir, windows, timers,
                 exportDir, registering, sqlite_master, linked_item_type, legacy,
                 diary_entries_new, connection, initCaller, tableNames, diaryTableInfo,
                 logged, backupFile, uploading>>

\* The database files a start may find: none yet, one the current version
\* left, or one an earlier version left, with either or both legacy tables
\* and with or without the linked_item_type column. The legacy ids are
\* random UUIDs, so no two rows share one.
MigrateDiary == [e \in {"e1", "e4"} |-> BatchDiaryRow(e, "intact")]
LegacyRow(t, id) ==
  LET row == BatchFileRow(id, IF t = "media_items" THEN "photo" ELSE "pdf", "intact")
  IN IF t = "media_items"
       THEN [user_id |-> row.user_id, title |-> row.name, path |-> row.path,
             type |-> row.type, metadata_title |-> row.metadata_title]
       ELSE row
Shapes == {"fresh", "current", "legacy"}
MigrateInit ==
  /\ TextIdle
  /\ FileIdle
  /\ \E shape \in Shapes, found \in SUBSET LegacyTables, column \in BOOLEAN :
       /\ shape # "legacy" => found = {} /\ ~column
       /\ users = IF shape = "fresh" THEN EmptyMap
                  ELSE [u \in UserIds |->
                          IF u = "u1"
                            THEN [email |-> "a@x",
                                  password_hash |-> hashPasswordOf(<<112>>, 200),
                                  name |-> "Ann"]
                            ELSE [email |-> "b@x",
                                  password_hash |-> hashPasswordOf(<<113>>, 200),
                                  name |-> "Ann"]]
       /\ diary_entries = IF shape = "fresh" THEN EmptyMap ELSE MigrateDiary
       /\ files = IF shape = "current"
                    THEN [f \in BatchFiles |->
                            BatchFileRow(f, IF f = "f1" THEN "photo" ELSE "pdf", "intact")]
                    ELSE EmptyMap
       /\ sqlite_master = IF shape = "fresh" THEN {}
                          ELSE IF shape = "current" THEN CurrentTables
                          ELSE {"users", "diary_entries"} \cup found
       /\ linked_item_type = column
       /\ legacy = [t \in LegacyTables |->
                      IF t \in found
                        THEN [f \in {IF t = "media_items" THEN "f1" ELSE "f2"} |->
                                LegacyRow(t, f)]
                        ELSE EmptyMap]
  /\ diary_entries_new = EmptyMap
  /\ disk = EmptyMap
  /\ userKeys = EmptyMap
  /\ reply = NoReply
  /\ handed = <<>>
  /\ saved = EmptyMap
  /\ cleared = {}
  /\ running = FALSE
  /\ platform = "linux"
  /\ now = 1
  /\ tmpdir = EmptyMap
  /\ windows = FALSE
  /\ timers = {}
  /\ exportDir = NoExport
  /\ registering = <<>>
  /\ connection = "none"
  /\ initPc = "stopped"
  /\ initCaller = "whenReady"
  /\ tableNames = {}
  /\ diaryTableInfo = {}
  /\ logged = {}
  /\ backupFile = NoBackup
  /\ uploading = <<>>

MigrateNext ==
  \/ WhenReady
  \/ Initialize
  \/ CreateTables
  \/ MigrateToFilesTable
  \/ \E t \in LegacyTables : InsertLegacy(t)
  \/ \E t \in LegacyTables : DropLegacy(t)
  \/ TableInfo
  \/ RebuildCreate
  \/ RebuildCopy
  \/ RebuildDrop
  \/ RebuildRename
  \/ CreateWindow
  \/ Kill

SpecMigrate == MigrateInit /\ [][MigrateNext]_vars

\* The two accounts logged in; uploads that wait at their dialog while
\* other requests are handled.
UploadNext ==
  \/ UploadBegin("media:upload", TRUE)
  \/ UploadBegin("file:upload", FALSE)
  \/ UploadResume
  \/ AuthLogout

SpecUpload == StoreInit /\ [][UploadNext]_vars

\* Two accounts, both logged in, with or without diary entries, and with or
\* without a backup made when the entries were there.
RestoreInit ==
  /\ TextIdle
  /\ FileIdle
  /\ users = [u \in UserIds |->
                IF u = "u1"
                  THEN [email |-> "a@x", password_hash |-> hashPasswordOf(<<112>>, 200),
                        name |-> "Ann"]
                  ELSE [email |-> "b@x", password_hash |-> hashPasswordOf(<<113>>, 200),
                        name |-> "Ann"]]
  /\ userKeys = [u \in UserIds |-> IF u = "u1" THEN <<112>> ELSE <<113>>]
  /\ diary_entries \in {EmptyMap, MigrateDiary}
  /\ files = EmptyMap
  /\ disk = EmptyMap
  /\ reply = NoReply
  /\ handed = <<>>
  /\ saved = EmptyMap
  /\ cleared = {}
  /\ running = TRUE
  /\ platform = "linux"
  /\ now = 1
  /\ tmpdir = EmptyMap
  /\ windows = TRUE
  /\ timers = {}
  /\ exportDir = NoExport
  /\ registering = <<>>
  /\ sqlite_master = CurrentTables
  /\ linked_item_type = FALSE
  /\ legacy = NoLegacy
  /\ diary_entries_new = EmptyMap
  /\ connection = "open"
  /\ initPc = "idle"
  /\ initCaller = "whenReady"
  /\ tableNames = {}
  /\ diaryTableInfo = {}
  /\ logged = {}
  /\ backupFile \in {NoBackup,
                     [users |-> users, diary_entries |-> MigrateDiary, files |-> EmptyMap,
                      sqlite_master |-> CurrentTables, linked_item_type |-> FALSE,
                      legacy |-> NoLegacy, diary_entries_new |-> EmptyMap]}
  /\ uploading = <<>>

RestoreNext ==
  \/ DatabaseBackup
  \/ DatabaseRestore
  \/ RestoreReplace
  \/ Initialize
  \/ CreateTables
  \/ MigrateToFilesTable
  \/ TableInfo
  \/ RestoreReturn
  \/ AuthLogin
  \/ AuthLogout

SpecRestore == RestoreInit /\ [][RestoreNext]_vars

(* ---------------- claims about the text cipher --------------------------- *)
Segment(b, k) == LET parts == split(b, COLON) IN IF Len(parts) >= k THEN parts[k] ELSE <<>>
IsPrefix(p, s) == Len(p) <= Len(s) /\ SubSeq(s, 1, Len(p)) = p

\* C6 (as amended): for every string s without an unpaired surrogate, the empty
\* string included, and every password p, decryptText(encryptText(s, p), p)
\* returns s.
C6_RoundTripWellFormed ==
  (textPc = "done" /\ storedText = blob /\ candidate = textPassword /\ WellFormed(plainText))
    => decrypted = Ok(plainText)

\* C6 (as claimed): decryptText(encryptText(s, p), p) returns s for every string s.
C6_RoundTripEveryString ==
  (textPc = "done" /\ storedText = blob /\ candidate = textPassword)
    => decrypted = Ok(plainText)

C6_Witness ==
  /\ textPc = "done" /\ storedText = blob /\ candidate = textPassword
  /\ WellFormed(plainText) /\ Len(utf8Encode(plainText)) > Len(plainText)
  /\ decrypted.ok /\ decrypted.value = plainText

Written(label) == \E k \in 1..Len(writes) : writes[k] = label
MinEncryptedLen == SALT_LENGTH + IV_LENGTH + TAG_LENGTH

\* C8: decryptFile applied, with the same password, to the file encryptFile
\* produced resolves and leaves exactly the source bytes at the output path,
\* for every source file (empty, one byte, several chunks) and every password.
C8_FileRoundTrip ==
  (decPromise # "none" /\ decReadable /\ decInput = outputDisk /\ decPassword = filePassword)
    => (decPromise = "resolved" /\ plainOut = FileOf(fileBytes))

\* C9: encryptFile writes salt, IV, all the ciphertext and then the tag: the
\* tag is taken from a finalized cipher that has consumed the whole input, no
\* ciphertext is still on its way to the output when the tag is written, and
\* the promise resolves only after the tag is on disk behind the whole
\* ciphertext.
C9_TagAfterAllCiphertext ==
  /\ Written("tag") =>
       /\ cipherFinal
       /\ inputPos = Len(fileBytes)
       /\ cipherBuf = <<>>
       /\ writes[Len(writes)] = "tag"
  /\ encPromise = "resolved" =>
       /\ Written("tag")
       /\ outputBuf = <<>>
       /\ outputDisk = fileSalt \o fileIv \o gcmCryptFrom(cipherCtx, 0, fileBytes)
                         \o gcmTagOf(cipherCtx, cipherText)

\* C10: a decryptFile call whose input is shorter than 64 + 16 + 16 = 96 bytes
\* rejects with the too-small format error and leaves the output path as it
\* was (absent stays absent, an existing file keeps its content); an input of
\* exactly 96 bytes is not rejected as too small.
C10_TooSmallRejected ==
  [][(decPromise = "none" /\ decPromise' # "none" /\ decReadable') =>
       /\ Len(decInput') < MinEncryptedLen =>
            /\ decPromise' = "rejected"
            /\ decError' = ERR_TOO_SMALL
            /\ plainOut' = plainOut
       /\ Len(decInput') = MinEncryptedLen => decError' # ERR_TOO_SMALL]_vars

C10_Witness ==
  /\ decPromise = "rejected"
  /\ decReadable
  /\ Len(decInput) = MinEncryptedLen - 1
  /\ decError = ERR_TOO_SMALL
  /\ plainOut = FileOf(<<1, 2, 3>>)

\* C11: decryptFile is all-or-nothing: when it resolves the output path
\* holds the complete plaintext, the bytes that were encrypted; when it
\* rejects, for a wrong password, tampered or truncated data or an unreadable
\* input, the output path is as it was before the call.
C11_AllOrNothing ==
  [][(decPromise = "none" /\ decPromise' # "none") =>
       /\ decPromise' = "resolved" => plainOut' = FileOf(fileBytes)
       /\ decPromise' = "rejected" =>
            /\ plainOut' = plainOut
            /\ decError' \in {ERR_TOO_SMALL, ERR_AUTH, ERR_ENOENT}]_vars

C11_Witness ==
  /\ decPromise = "rejected"
  /\ decReadable
  /\ decError = ERR_AUTH
  /\ decInput \in TamperedFiles
  /\ decPassword = filePassword
  /\ Len(decInput) > MinEncryptedLen
  /\ plainOut = NoFile

\* C12: diary:getAll and file:getAll return exactly one result per stored
\* row of the user; a row with a field that fails to decrypt (corrupted,
\* malformed or missing blob) shows the fixed placeholder in that field, every
\* other row shows the text it was encrypted from, and the request as a
\* whole succeeds.
FieldFails(b, userId) == ~decryptTextOf(b, getUserEncryptionKey(userId)).ok
KeyedWrites ==
  {"diary:save", "diary:update", "media:upload", "file:upload", "media:updateMetadata",
   "file:updateMetadata"}
C14_NoPlaintextCopyLeft ==
  reply.handler \in {"media:upload", "file:upload"} => PickedFile.path \notin DOMAIN disk

\* C15: every temporary plaintext file file:open creates is eventually
\* deleted, and a file:open whose decryption fails leaves no temporary file
\* behind.
C15_TempFileEventuallyDeleted ==
  /\ [][(reply' # reply /\ reply'.handler = "file:open" /\ ~reply'.ok)
          => tmpdir' = tmpdir]_vars
  /\ \A t \in 1..MaxNow : (t \in DOMAIN tmpdir) ~> (t \notin DOMAIN tmpdir)

\* C20: when the application shuts down, all its windows closed, the key
\* cache is empty for every user.
C20_ShutdownClearsKeys == ~windows => userKeys = EmptyMap

\* C16: the export skips an item that fails to decrypt without aborting,
\* and the count it returns, which is the manifest's total_records, is the
\* number of the user's diary entries and file records that were exported,
\* each stored record counted once.
ExportedIds == {exportDir.objects[k].uuid : k \in 1..Len(exportDir.objects)}
CopiedIds == {c.path[3] : c \in exportDir.copied}
C17_NoTmpLeft ==
  reply.handler = "database:exportForAI" =>
    \A f \in DOMAIN files : tempDecryptedOf(files[f].path) \notin DOMAIN disk

\* C18: auth:register for an email that an account holds returns
\* success = false, creates no account and leaves the key cache as it was;
\* and in every reachable state, registrations interleaved at their awaits
\* included, no two accounts share an email.
C18_DuplicateEmailRejected ==
  /\ [](\A u, v \in DOMAIN users : users[u].email = users[v].email => u = v)
  /\ [][((reply' # reply \/ Len(registering') < Len(registering))
          /\ reply'.handler = "auth:register"
          /\ getUserByEmail(reply'.arg) # NoUser) =>
          /\ ~reply'.ok
          /\ users' = users
          /\ userKeys' = userKeys]_vars

\* Two registrations for one email passed the lookup together; the second
\* INSERT failed and the account keeps the first one's password.
C18_Witness ==
  /\ reply.handler = "auth:register"
  /\ reply.error = ERR_REGISTER
  /\ \E u \in DOMAIN users :
       /\ users[u].email = reply.arg
       /\ ~verifyPasswordOf(reply.password, users[u].password_hash)
  /\ Cardinality(DOMAIN users) = 1
  /\ registering = <<>>

\* C19: the result auth:login returns for an unknown email is identical to
\* the result it returns for a known email with a wrong password: of two
\* logins in a row, the first for an email no account holds and the second
\* for an account's email with a password that does not verify, both get the
\* same success flag, error and token.
C19_LoginFailuresAlike ==
  [][(/\ reply.handler = "auth:login"
      /\ reply'.handler = "auth:login"
      /\ reply.error # ERR_LOGIN
      /\ reply'.error # ERR_LOGIN
      /\ getUserByEmail(reply.arg) = NoUser
      /\ getUserByEmail(reply'.arg) # NoUser
      /\ ~verifyPasswordOf(reply'.password, users[getUserByEmail(reply'.arg)].password_hash))
       => /\ reply'.ok = reply.ok
          /\ reply'.error = reply.error
          /\ reply'.token = reply.token]_vars

\* What encryptFile leaves behind when its promise resolves is one of
\* encryptFileResults; an invariant of SpecFile.
EncryptFileResultsCover ==
  encPromise = "resolved"
    => outputDisk \in encryptFileResults(fileBytes, filePassword, fileSalt, fileIv)

(* ---------------- claims about sessions and the store --------------------- *)
DecryptRequests == {"diary:getAll", "media:getAll", "file:getAll", "file:open"}
KnownBlobs == {r[4] : r \in encryptTextTable}
IsHexText(s) == \A k \in 1..Len(s) : HexVal(s[k]) >= 0
IsEncryptedBlob(b) ==
  LET parts == split(b, COLON)
  IN /\ Len(parts) = 4
     /\ Len(parts[1]) = 2 * SALT_LENGTH
     /\ Len(parts[2]) = 2 * IV_LENGTH
     /\ Len(parts[3]) = 2 * TAG_LENGTH
     /\ Len(parts[4]) % 2 = 0
     /\ \A k \in 1..4 : IsHexText(parts[k])
     /\ b \notin AppTexts
EncryptedBlobs == {b \in KnownBlobs : IsEncryptedBlob(b)}

\* C1: once auth:logout has cleared a user's key, every decrypt request for
\* that user (diary:getAll, media:getAll, file:getAll, file:open) fails with
\* the not-authenticated error and returns no plaintext, and the key stays
\* absent, until that user logs in or registers again.
C1_LoggedOutCannotDecrypt ==
  /\ cleared \cap DOMAIN userKeys = {}
  /\ (reply.handler \in DecryptRequests /\ reply.arg \in cleared)
       => /\ ~reply.ok
          /\ reply.error = ERR_NOT_AUTH_DEC
          /\ reply.items = {}
          /\ reply.opened = <<>>

C1_Witness ==
  /\ reply.handler = "file:open"
  /\ reply.arg = "u1"
  /\ "u1" \in cleared
  /\ reply.error = ERR_NOT_AUTH_DEC
  /\ "media/a.pdf.enc" \in DOMAIN disk
  /\ decryptFileOf(disk["media/a.pdf.enc"], <<112>>).ok
  /\ \E e \in DOMAIN diary_entries : diary_entries[e].user_id = "u1"

\* C2: a successful diary:getAll returns every entry the user saved or
\* updated, with the title and content the user last gave it, whatever
\* register, login, logout, diary:save, diary:update and auth:updateUser
\* calls came before, a password change included.
C2_StoreRoundTrip ==
  (reply.handler = "diary:getAll" /\ reply.ok)
    => \A e \in DOMAIN diary_entries :
         (diary_entries[e].user_id = reply.arg /\ saved[e].by = reply.arg)
           => [id |-> e, title |-> saved[e].title, content |-> saved[e].content]
                \in reply.items

\* C3: every diary_entries row holds title and content as encrypted blobs,
\* every files row holds metadata.title as an encrypted blob, and whatever a
\* handler passes to the store as a title or a content is an encrypted blob.
C3_AtRestCiphertext ==
  /\ \A e \in DOMAIN diary_entries :
       /\ diary_entries[e].title \in EncryptedBlobs
       /\ diary_entries[e].content \in EncryptedBlobs
  /\ \A f \in DOMAIN files : files[f].metadata_title \in EncryptedBlobs
  /\ \A k \in 1..Len(handed) : handed[k] \in EncryptedBlobs

C3_Witness ==
  /\ \E e \in DOMAIN diary_entries : saved[e].by # diary_entries[e].user_id
  /\ \E f \in DOMAIN files : files[f].name = files[f].metadata_title
  /\ reply.handler = "file:updateMetadata"
  /\ Len(handed) = 1

\* C4: auth:login returns success and sets the key cache entry of the
\* account to the supplied password exactly when the account exists, the
\* password verifies and the store did not fail; every other login returns
\* failure and leaves the key cache as it was.
C4_LoginGating ==
  [][reply'.handler = "auth:login" =>
       LET user == getUserByEmail(reply'.arg)
           verified == /\ user # NoUser
                       /\ verifyPasswordOf(reply'.password, users[user].password_hash)
       IN /\ reply'.ok <=> (verified /\ reply'.error # ERR_LOGIN)
          /\ reply'.ok => /\ reply'.token = user
                          /\ DOMAIN userKeys' = DOMAIN userKeys \cup {user}
                          /\ userKeys'[user] = reply'.password
                          /\ \A u \in DOMAIN userKeys \ {user} : userKeys'[u] = userKeys[u]
          /\ ~reply'.ok => userKeys' = userKeys]_vars

C4_Witness ==
  /\ reply.handler = "auth:login"
  /\ reply.ok
  /\ reply.password = <<113>>
  /\ userKeys[reply.token] = <<113>>
  /\ \E u \in DOMAIN userKeys : u # reply.token

\* C5: every entry of the key cache is the password of its user: it verifies
\* against the password hash the store holds for that user.
C5_CacheHoldsVerifiedPassword ==
  \A u \in DOMAIN userKeys :
    /\ u \in DOMAIN users
    /\ verifyPasswordOf(userKeys[u], users[u].password_hash)

(* ---------------- claims about Database.initialize ------------------------ *)
\* The store in the shape the current version leaves it in.
MigratedShape ==
  /\ sqlite_master = CurrentTables
  /\ ~linked_item_type

\* C21: running Database.initialize on a store that is already in the
\* migrated shape changes neither the schema nor any row and raises no
\* error, however often the application is started: no step taken on a
\* migrated store changes a table, a column or a row, logs an error or makes
\* initialize() fail.
C21_MigrationIdempotent ==
  [][MigratedShape =>
       /\ sqlite_master' = sqlite_master
       /\ linked_item_type' = linked_item_type
       /\ users' = users
       /\ diary_entries' = diary_entries
       /\ files' = files
       /\ logged' = logged
       /\ initPc' # "failed"]_vars

\* initialize() has run from its first statement to its last on a store
\* that had the current tables, rows in them and nothing to migrate.
C21_Witness ==
  /\ running
  /\ windows
  /\ initPc = "idle"
  /\ tableNames = CurrentTables
  /\ diaryTableInfo = {}
  /\ MigratedShape
  /\ DOMAIN diary_entries = {"e1", "e4"}
  /\ DOMAIN files = BatchFiles
  /\ logged = {}

\* C22: after startup on a store with legacy media_items and/or file_items
\* tables, every legacy row is in files with the same id, user_id, path,
\* type and metadata (media_items.title as name), and neither legacy table
\* exists any more: a legacy table is dropped only with all its rows copied,
\* and once initialize() has returned no legacy table is left.
C22_LegacyFold ==
  /\ [][\A t \in LegacyTables :
          (t \in sqlite_master /\ t \notin sqlite_master') =>
            \A id \in DOMAIN legacy[t] :
              /\ id \in DOMAIN files'
              /\ files'[id] = filesRowOf(t, legacy[t][id])]_vars
  /\ []((running /\ initPc = "idle") => sqlite_master \cap LegacyTables = {})

\* C28: removing the linked_item_type column never loses diary entries: if
\* the rebuild is interrupted between two of its statements and the
\* application is started again, every diary entry that existed before is
\* still returned by getDiaryEntries for its user.
C28_RebuildKeepsEntries ==
  (running /\ initPc = "idle" /\ users # EmptyMap) =>
    \A e \in DOMAIN MigrateDiary :
      /\ e \in getDiaryEntries(MigrateDiary[e].user_id)
      /\ diary_entries[e] = MigrateDiary[e]

(* ---------------- claims about backup and restore ------------------------- *)
\* C23: database:backup and database:restore never touch the key cache:
\* whatever the outcome (success, cancel, failure), no step of either
\* handler, from its call to its return, changes userKeys.
C23_BackupRestoreKeepKeys ==
  [][(\/ initPc' # initPc
      \/ reply' # reply /\ reply'.handler \in {"database:backup", "database:restore"})
       => userKeys' = userKeys]_vars

\* A restore has replaced the store and returned success with both users'
\* keys still cached.
C23_Witness ==
  /\ reply.handler = "database:restore"
  /\ reply.ok
  /\ initPc = "idle"
  /\ connection = "open"
  /\ DOMAIN userKeys = UserIds
  /\ diary_entries = MigrateDiary
  /\ backupFile # NoBackup

\* C24: after database:restore has returned, with success or an error, the
\* store is open again, and no other store request handled while a restore
\* is in progress (here: auth:login) runs against a closed connection.
C24_StoreOpenAfterRestore ==
  /\ []((reply.handler = "database:restore" /\ initPc = "idle") => connection = "open")
  /\ [][(reply' # reply /\ reply'.handler = "auth:login") => connection = "open"]_vars

(* ---------------- claims about uploads in flight -------------------------- *)
\* C25: once auth:logout for a userId has completed, no operation encrypts
\* or decrypts with that user's password, including an upload that was
\* started before the logout and was still waiting at its dialog: a handler
\* that returns for a user logged out since their last login has neither
\* written a file nor passed a ciphertext to the store.
C25_NoCryptoAfterLogout ==
  [][(/\ reply' # reply
      /\ reply'.handler \in {"media:upload", "file:upload", "database:exportForAI"}
      /\ reply'.arg \in cleared)
       => /\ handed' = <<>>
          /\ disk' = disk
          /\ files' = files]_vars

\* C26: for every file the file:upload dialog accepts, the derived type is
\* in the files.type enumeration, so every accepted upload of an
\* authenticated user (one that got as far as the INSERT) ends with a
\* persisted File Record that points to its encrypted file.
C26_AcceptedUploadPersisted ==
  [][(reply' # reply /\ reply'.handler = "file:upload" /\ handed' # <<>>)
       => /\ reply'.ok
          /\ reply'.token \in DOMAIN files' \ DOMAIN files
          /\ files'[reply'.token].type \in FileTypes
          /\ files'[reply'.token].path \in DOMAIN disk']_vars

\* The password of an account, as its stored hash verifies it.
passwordOf(userId) ==
  CHOOSE password \in AppPasswords : verifyPasswordOf(password, users[userId].password_hash)

\* C27: no two File Records reference the same encrypted file path, and
\* every record's file stays decryptable with its owner's password, also
\* after an upload of a file with the base name of an earlier upload.
decryptable(fs, row) ==
  /\ row.path \in DOMAIN fs
  /\ decryptFileOf(fs[row.path], passwordOf(row.user_id)).ok
C27_DistinctEncryptedPaths ==
  /\ [](\A f, g \in DOMAIN files : files[f].path = files[g].path => f = g)
  /\ [][\A f \in DOMAIN files :
          decryptable(disk, files[f]) => decryptable(disk', files'[f])]_vars

\* C29: every stored diary entry is encrypted under the password of the user
\* recorded as its owner, and a diary:update step changes a stored entry only
\* when the supplied userId is that entry's user_id.
ownerCanRead(row) ==
  /\ decryptTextOf(row.title, passwordOf(row.user_id)).ok
  /\ decryptTextOf(row.content, passwordOf(row.user_id)).ok

C29_UpdateOnlyByOwner ==
  /\ [](\A e \in DOMAIN diary_entries : ownerCanRead(diary_entries[e]))
  /\ [][(reply' # reply /\ reply'.handler = "diary:update")
          => \A e \in DOMAIN diary_entries :
               diary_entries'[e] # diary_entries[e] => diary_entries[e].user_id = reply'.arg]_vars

\* C30: Database.updateUser changes only the fields present in updates. On an
\* answered auth:updateUser, every other account and the account's e-mail are
\* unchanged; without a name in updates the name is unchanged (so a call with
\* only a password changes password_hash alone); without a password the
\* password_hash is unchanged; with neither nothing changes.
C30_UpdateOnlyGivenFields ==
  [][(reply' # reply /\ reply'.handler = "auth:updateUser" /\ reply'.ok)
       => LET id == reply'.arg
          IN /\ DOMAIN users' = DOMAIN users
             /\ \A u \in DOMAIN users \ {id} : users'[u] = users[u]
             /\ users'[id].email = users[id].email
             /\ reply'.token = NoName => users'[id].name = users[id].name
             /\ Falsy(reply'.password) => users'[id].password_hash = users[id].password_hash]_vars

====
